---- MODULE Spec2Model ----
(***************************************************************************)
(* A model of OCRNeuralNetwork (server/src/ocr.py): the four weight        *)
(* tensors held in memory, the persisted record at NN_FILE_PATH, the       *)
(* timestamped backups beside it, and the operations save,                 *)
(* _cleanup_old_backups, restore_from_backup, list_backups, _load and      *)
(* train.                                                                  *)
(*                                                                         *)
(* Tensor values are symbolic terms.  A value is either                    *)
(*   [k |-> "init", id |-> i, shape |-> <<rows, columns>>]                 *)
(*                                     a value set by random               *)
(*                                     initialisation or by the caller, or *)
(*   [k |-> "upd", f |-> field, pre |-> W, x |-> pixels, label |-> l]      *)
(*                                     the value the backpropagation step  *)
(*                                     gives tensor `field` from the       *)
(*                                     weights W, the pixel vector x and   *)
(*                                     the label l.                        *)
(* Two terms are equal exactly when they are built the same way, so an     *)
(* equality of tensors found here holds whatever the arithmetic is.        *)
(*                                                                         *)
(* Files carry the modification time the file system gives them.  The      *)
(* clock ticks once per save: datetime.now() has microsecond resolution    *)
(* and every save does file I/O between two readings of it.                *)
(***************************************************************************)
EXTENDS Integers, Sequences, FiniteSets, TLC

VARIABLES
    theta1,             \* self.theta1
    theta2,             \* self.theta2
    input_layer_bias,   \* self.input_layer_bias
    hidden_layer_bias,  \* self.hidden_layer_bias
    use_file,           \* self._use_file
    record,             \* the file at NN_FILE_PATH: <<>> or <<[mtime, content]>>
    backups,            \* the files NN_FILE_PATH.backup.<ts>: set of [ts, mtime, content]
    clock,              \* the wall clock
    last,               \* the latest call: its name, arguments and outcome
    saveRun,            \* history: <<[k, n]>> while the path has seen exactly n save(k) calls
                        \* and no restore since it was fresh; <<>> otherwise
    created,            \* history: the timestamps of all backups ever created
    submitted,          \* history: the number of samples handed to train so far
    saved,              \* history: <<[w, dirty]>>, the tensors as they were at the save that
                        \* wrote the record, and whether memory was modified since; <<>>
                        \* when no save wrote the record
    num_hidden_nodes,   \* self.num_hidden_nodes
    predicted,          \* history: the <<pixel vector, outcome>> pairs of the predict calls
                        \* made since the tensors were last assigned
    requests            \* the HTTP requests being handled: for each thread with a request,
                        \* the handler's position and local values

vars == <<theta1, theta2, input_layer_bias, hidden_layer_bias, use_file,
          record, backups, clock, last, saveRun, created, saved, submitted,
          num_hidden_nodes, predicted, requests>>

tensors == <<theta1, theta2, input_layer_bias, hidden_layer_bias>>
files == <<record, backups>>
history == <<saveRun, created, saved, submitted>>

----------------------------------------------------------------------------
(* Bounds of the model *)

MaxClock == 4       \* saves that touch the file system in one behaviour
MaxBackups == 2     \* largest max_backups passed to save
MaxIndex == 2       \* largest backup_index passed to restore_from_backup
MaxValue == 1       \* tensor values the caller can assign: ids 0..MaxValue
MaxSamples == 3     \* samples handed to train in one behaviour
MaxLevel == 1       \* output activations take the levels 0..MaxLevel
MaxTests == 6       \* largest test set handed to model_test
MaxNodes == 4       \* largest min_nodes of a sweep; max_nodes goes two beyond
MaxStep == 2        \* largest step of a sweep
MaxLife == 2        \* instances built and records written where instances are built
MaxZ == 40          \* largest size of the whole numbers sigmoid is given

----------------------------------------------------------------------------
(* Values *)

Fields == {"theta1", "theta2", "input_layer_bias", "hidden_layer_bias"}

\* Sizes of the network: 20x20 pixels in, num_hidden_nodes hidden, 10 digits out.
InputSize == 400
OutputSize == 10
NumHidden == 15

\* The shape every tensor is given by __init__: theta1 is num_hidden_nodes x 400,
\* theta2 is 10 x num_hidden_nodes, the biases are columns.
ShapeOf(f) ==
    CASE f = "theta1" -> <<NumHidden, InputSize>>
      [] f = "theta2" -> <<OutputSize, NumHidden>>
      [] f = "input_layer_bias" -> <<NumHidden, 1>>
      [] f = "hidden_layer_bias" -> <<OutputSize, 1>>

\* _rand_initialize_weights(size_in, size_out): draw number i of the given shape.
InitValue(f, i) == [k |-> "init", id |-> i, shape |-> ShapeOf(f)]

\* The four tensors of the instance, as one value.
Weights ==
    [theta1 |-> theta1, theta2 |-> theta2,
     input_layer_bias |-> input_layer_bias,
     hidden_layer_bias |-> hidden_layer_bias]

\* A save that writes the two biases under each other's field name.
ToJson_swapsBiases(w) ==
    [theta1 |-> w.theta1, theta2 |-> w.theta2,
     b1 |-> w.hidden_layer_bias, b2 |-> w.input_layer_bias]

\* json_neural_network of save: the four tensors under the record's field names.
ToJson(w) ==
    [theta1 |-> w.theta1, theta2 |-> w.theta2,
     b1 |-> w.input_layer_bias, b2 |-> w.hidden_layer_bias]

\* The assignments of _load: the tensors read back from a record's content.
FromJson(nn) ==
    [theta1 |-> nn.theta1, theta2 |-> nn.theta2,
     input_layer_bias |-> nn.b1, hidden_layer_bias |-> nn.b2]

\* The four tensors hold w.
SetWeightsInit(w) ==
    /\ theta1 = w.theta1
    /\ theta2 = w.theta2
    /\ input_layer_bias = w.input_layer_bias
    /\ hidden_layer_bias = w.hidden_layer_bias

SetWeights(w) ==
    /\ theta1' = w.theta1
    /\ theta2' = w.theta2
    /\ input_layer_bias' = w.input_layer_bias
    /\ hidden_layer_bias' = w.hidden_layer_bias

----------------------------------------------------------------------------
(* Backups and their orderings *)

\* Tuple order of (os.path.getmtime(path), path): the path ends in the
\* timestamp, whose fixed-width format sorts as the clock does.
MtimeKeyLess(a, b) ==
    \/ a.mtime < b.mtime
    \/ a.mtime = b.mtime /\ a.ts < b.ts

\* Tuple order of (timestamp, path) in list_backups.
NameKeyLess(a, b) == a.ts < b.ts

RECURSIVE SortedByMtime(_)
\* backups.sort() of _cleanup_old_backups: oldest modification time first.
SortedByMtime(bs) ==
    IF bs = {} THEN <<>>
    ELSE LET first == CHOOSE b \in bs : \A c \in bs \ {b} : MtimeKeyLess(b, c)
         IN <<first>> \o SortedByMtime(bs \ {first})

RECURSIVE SortedByName(_)
SortedByName(bs) ==
    IF bs = {} THEN <<>>
    ELSE LET first == CHOOSE b \in bs : \A c \in bs \ {b} : NameKeyLess(b, c)
         IN <<first>> \o SortedByName(bs \ {first})

Reverse(s) == [i \in 1..Len(s) |-> s[Len(s) + 1 - i]]

\* backups.sort(reverse=True) of restore_from_backup.
RestoreOrder(bs) == Reverse(SortedByMtime(bs))

\* backups.sort(reverse=True) of list_backups.
ListOrder(bs) == Reverse(SortedByName(bs))

RECURSIVE PopOldest_keepsOneMore(_, _)
\* A pruning loop that stops one backup early (>= written as > max_backups + 1).
PopOldest_keepsOneMore(sorted, max_backups) ==
    IF Len(sorted) > max_backups + 1
    THEN PopOldest_keepsOneMore(Tail(sorted), max_backups)
    ELSE sorted

RECURSIVE PopOldest(_, _)
\* The while loop of _cleanup_old_backups on the sorted list.
PopOldest(sorted, max_backups) ==
    IF Len(sorted) > max_backups
    THEN PopOldest(Tail(sorted), max_backups)
    ELSE sorted

\* The backups left in the directory by _cleanup_old_backups(max_backups).
_cleanup_old_backups(bs, max_backups) ==
    LET kept == PopOldest(SortedByMtime(bs), max_backups)
    IN {kept[i] : i \in 1..Len(kept)}

\* A backup taken after the record was rewritten: it holds the new tensors.
BackupCopy_copiesNewRecord(bs, rec, ts) ==
    {b \in bs : b.ts # ts} \cup
        {[ts |-> ts, mtime |-> rec.mtime, content |-> ToJson(Weights)]}

\* shutil.copy2(NN_FILE_PATH, backup_path): content and modification time of the
\* record, under the name stamped ts (an existing file of that name is replaced).
BackupCopy(bs, rec, ts) ==
    {b \in bs : b.ts # ts} \cup
        {[ts |-> ts, mtime |-> rec.mtime, content |-> rec.content]}

----------------------------------------------------------------------------
(* Operations *)

\* The state of the test fixture: an instance built with use_file=False, whose
\* save in the constructor wrote nothing, pointed at a fresh path.
Init ==
    /\ theta1 = InitValue("theta1", 0)
    /\ theta2 = InitValue("theta2", 0)
    /\ input_layer_bias = InitValue("input_layer_bias", 0)
    /\ hidden_layer_bias = InitValue("hidden_layer_bias", 0)
    /\ use_file = FALSE
    /\ record = <<>>
    /\ backups = {}
    /\ clock = 0
    /\ last = [op |-> "init"]
    /\ saveRun = <<>>
    /\ created = {}
    /\ saved = <<>>
    /\ submitted = 0
    /\ num_hidden_nodes = NumHidden
    /\ predicted = {}
    /\ requests = <<>>

\* nn._use_file = b, as the tests set it.
SetUseFile(b) ==
    /\ use_file # b
    /\ use_file' = b
    /\ last' = [op |-> "set_use_file", arg |-> b]
    /\ saveRun' = IF b /\ record = <<>> /\ backups = {} /\ saveRun = <<>>
                  THEN <<[k |-> -1, n |-> 0]>>
                  ELSE saveRun
    /\ UNCHANGED <<tensors, num_hidden_nodes, files, clock, created, saved, submitted,
                   predicted, requests>>

\* nn.theta1 = nn._rand_initialize_weights(...); nn.theta2 = ..., as the tests
\* modify the weights in memory.
Modify(i) ==
    /\ theta1 # InitValue("theta1", i)
    /\ theta1' = InitValue("theta1", i)
    /\ theta2' = InitValue("theta2", i)
    /\ last' = [op |-> "modify"]
    /\ saved' = IF saved = <<>> THEN saved ELSE <<[saved[1] EXCEPT !.dirty = TRUE]>>
    /\ predicted' = {}
    /\ UNCHANGED <<input_layer_bias, hidden_layer_bias, num_hidden_nodes, use_file,
                   files, clock, saveRun, created, submitted, requests>>

\* save(max_backups)
save(max_backups) ==
    IF ~use_file
    THEN /\ last' = [op |-> "save", arg |-> max_backups, ret |-> "None"]
         /\ UNCHANGED <<tensors, num_hidden_nodes, use_file, files, clock, history,
                         predicted, requests>>
    ELSE /\ clock < MaxClock
         /\ clock' = clock + 1
         /\ backups' =
               IF record # <<>>
               THEN _cleanup_old_backups(BackupCopy(backups, record[1], clock'),
                                         max_backups)
               ELSE backups
         /\ record' = <<[mtime |-> clock', content |-> ToJson(Weights)]>>
         /\ last' = [op |-> "save", arg |-> max_backups, ret |-> "None"]
         /\ saveRun' =
               IF saveRun # <<>> /\ saveRun[1].k \in {-1, max_backups}
               THEN <<[k |-> max_backups, n |-> saveRun[1].n + 1]>>
               ELSE <<>>
         /\ created' = IF record # <<>> THEN created \cup {clock'} ELSE created
         /\ saved' = <<[w |-> Weights, dirty |-> FALSE]>>
         /\ UNCHANGED <<tensors, num_hidden_nodes, use_file, submitted, predicted, requests>>

\* The record's field names in the order _load reads them, and the tensor each
\* is assigned to.
LoadKeys == <<"theta1", "theta2", "b1", "b2">>
LoadTargets == <<"theta1", "theta2", "input_layer_bias", "hidden_layer_bias">>

RECURSIVE LoadFrom(_, _, _)
\* The assignments of _load from the n-th on, on the parsed record nn: each
\* reads its field and assigns its tensor; the first field that is missing
\* raises KeyError and ends them.
LoadFrom(w, nn, n) ==
    IF n > Len(LoadKeys) THEN [w |-> w, ret |-> "None"]
    ELSE IF LoadKeys[n] \notin DOMAIN nn THEN [w |-> w, ret |-> "KeyError"]
    ELSE LoadFrom([w EXCEPT ![LoadTargets[n]] = nn[LoadKeys[n]]], nn, n + 1)

\* What _load leaves and raises on a file of the given content: a file that is
\* not a JSON document fails in json.load, before any assignment.
LoadResult(w, content) ==
    IF DOMAIN content = {"k"} THEN [w |-> w, ret |-> "JSONDecodeError"]
    ELSE LoadFrom(w, content, 1)

\* A load that reads the record whatever use_file says.
_load_ignoresUseFile ==
    IF record = <<>>
    THEN /\ last' = [op |-> "load", ret |-> "FileNotFoundError"]
         /\ UNCHANGED <<tensors, num_hidden_nodes, use_file, files, clock, history,
                        predicted, requests>>
    ELSE /\ SetWeights(FromJson(record[1].content))
         /\ last' = [op |-> "load", ret |-> "None"]
         /\ predicted' = {}
         /\ UNCHANGED <<num_hidden_nodes, use_file, files, clock, history, requests>>

\* _load()
_load ==
    IF ~use_file
    THEN /\ last' = [op |-> "load", ret |-> "None"]
         /\ UNCHANGED <<tensors, num_hidden_nodes, use_file, files, clock, history,
                         predicted, requests>>
    ELSE IF record = <<>>
    THEN /\ last' = [op |-> "load", ret |-> "FileNotFoundError"]
         /\ UNCHANGED <<tensors, num_hidden_nodes, use_file, files, clock, history,
                         predicted, requests>>
    ELSE LET r == LoadResult(Weights, record[1].content)
         IN  /\ SetWeights(r.w)
             /\ last' = [op |-> "load", ret |-> r.ret]
             /\ predicted' = IF r.ret = "None" \/ r.w # Weights THEN {} ELSE predicted
             /\ saved' = IF saved = <<>> \/ r.ret = "None" \/ r.w = Weights THEN saved
                         ELSE <<[saved[1] EXCEPT !.dirty = TRUE]>>
             /\ UNCHANGED <<num_hidden_nodes, use_file, files, clock, saveRun,
                            created, submitted, requests>>

\* backups[backup_index] on the list sorted newest first: the position chosen,
\* 1-based, with Python's negative indexing; 0 when the index raises IndexError.
PyIndex(len, backup_index) ==
    IF backup_index >= 0 THEN backup_index + 1
    ELSE IF len + backup_index >= 0 THEN len + backup_index + 1
    ELSE 0

\* restore_from_backup(backup_index)
restore_from_backup(backup_index) ==
    LET sorted == RestoreOrder(backups)
        pos == PyIndex(Len(sorted), backup_index)
    IN  IF ~use_file \/ backup_index >= Len(sorted)
        THEN /\ last' = [op |-> "restore", arg |-> backup_index, ret |-> "False"]
             /\ UNCHANGED <<tensors, num_hidden_nodes, use_file, files, clock, history,
                         predicted, requests>>
        ELSE IF pos = 0
        THEN /\ last' = [op |-> "restore", arg |-> backup_index, ret |-> "IndexError"]
             /\ UNCHANGED <<tensors, num_hidden_nodes, use_file, files, clock, history,
                         predicted, requests>>
        ELSE /\ record' = <<[mtime |-> sorted[pos].mtime,
                             content |-> sorted[pos].content]>>
             /\ SetWeights(FromJson(sorted[pos].content))
             /\ last' = [op |-> "restore", arg |-> backup_index, ret |-> "True",
                         ts |-> sorted[pos].ts]
             /\ saveRun' = <<>>
             /\ saved' = <<>>
             /\ predicted' = {}
             /\ UNCHANGED <<num_hidden_nodes, use_file, backups, clock, created,
                            submitted, requests>>

\* list_backups(): the timestamps of the backups, in the order returned.
list_backups ==
    /\ last' = [op |-> "list_backups",
                ret |-> [i \in 1..Cardinality(backups) |-> ListOrder(backups)[i].ts]]
    /\ UNCHANGED <<tensors, num_hidden_nodes, use_file, files, clock, history,
                         predicted, requests>>

Next ==
    \/ \E b \in BOOLEAN : SetUseFile(b)
    \/ \E i \in 0..MaxValue : Modify(i)
    \/ \E k \in 0..MaxBackups : save(k)
    \/ _load
    \/ \E i \in 0..MaxIndex : restore_from_backup(i)
    \/ restore_from_backup(-1)
    \/ list_backups

Spec == Init /\ [][Next]_vars

----------------------------------------------------------------------------
(* Training *)

\* A sample is a dict: a function whose domain holds the keys present.  A pixel
\* vector is described by its number of elements, whether every element
\* converts to a float, and its content px.  A label is a number, kept in
\* tenths (37 is 3.7), or a text that int() rejects.
Pixels(n, p) == [len |-> n, numeric |-> TRUE, px |-> p]
NotNumbers(n) == [len |-> n, numeric |-> FALSE, px |-> 0]
Number(tenths) == [kind |-> "num", tenths |-> tenths]
Text == [kind |-> "text"]

\* A y0 that is a string of n digit characters instead of a list: len() gives
\* n and float() takes every character, but as an array it is one number.
Digits(n) == [len |-> n, numeric |-> TRUE, px |-> 0, text |-> TRUE]

\* The number of rows of np.array(y0, dtype=float).reshape(-1, 1).
ArraySize(y0) == IF "text" \in DOMAIN y0 THEN 1 ELSE y0.len

LabelTenths == {-10, 0, 37, 90, 100}

Samples ==
    {[y0 |-> Pixels(InputSize, 1), label |-> Number(t)] : t \in LabelTenths} \cup
    {[y0 |-> Pixels(100, 1), label |-> Number(30)],
     [y0 |-> NotNumbers(InputSize), label |-> Number(30)],
     [y0 |-> Pixels(InputSize, 1), label |-> Text],
     [y0 |-> Pixels(InputSize, 1)],
     [label |-> Number(50)]}

Batches(n) == UNION {[1..m -> Samples] : m \in 0..n}

\* int(x) of a number: truncation toward zero.
PyInt(tenths) == IF tenths >= 0 THEN tenths \div 10 ELSE -((-tenths) \div 10)

\* One forward propagation, backpropagation and weight update on pixel vector
\* x and label: every tensor's new value is computed from the weights before
\* the step.
Backprop(w, x, label) ==
    [f \in Fields |-> [k |-> "upd", f |-> f, pre |-> w, x |-> x, label |-> label]]

RECURSIVE _train_lastToFirst(_, _, _, _)
\* An epoch that takes the training indices from the last to the first.
_train_lastToFirst(w, data_matrix, data_labels, training_indices) ==
    IF training_indices = <<>> THEN w
    ELSE LET data_index == training_indices[Len(training_indices)]
         IN _train_lastToFirst(
                Backprop(w, data_matrix[data_index], data_labels[data_index]),
                data_matrix, data_labels,
                SubSeq(training_indices, 1, Len(training_indices) - 1))

RECURSIVE _train(_, _, _, _)
\* _train(data_matrix, data_labels, training_indices) from weights w: one step
\* per index, in order, each on the weights the step before left.
_train(w, data_matrix, data_labels, training_indices) ==
    IF training_indices = <<>> THEN w
    ELSE LET data_index == Head(training_indices)
         IN _train(Backprop(w, data_matrix[data_index], data_labels[data_index]),
                   data_matrix, data_labels, Tail(training_indices))

NoError == [ret |-> "None", kind |-> "none"]
Failure(kind) == [ret |-> "ValueError", kind |-> kind]

\* A loop body that checks the label's range only after theta1 was updated.
TrainSample_checksLabelLate(w, data) ==
    IF "y0" \notin DOMAIN data \/ "label" \notin DOMAIN data
    THEN [w |-> w, err |-> Failure("missing")]
    ELSE IF ~data.y0.numeric
    THEN [w |-> w, err |-> Failure("type")]
    ELSE IF ArraySize(data.y0) # InputSize
    THEN [w |-> w, err |-> Failure("shape")]
    ELSE IF data.label.kind # "num"
    THEN [w |-> w, err |-> Failure("label")]
    ELSE LET label == PyInt(data.label.tenths)
             new == Backprop(w, data.y0.px, label)
         IN  IF label < 0 \/ label > 9
             THEN [w |-> [w EXCEPT !.theta1 = new.theta1], err |-> Failure("range")]
             ELSE [w |-> new, err |-> NoError]

\* The body of train's loop for one sample: the validation in the order the
\* code makes it, then the update of the four tensors.
TrainSample(w, data) ==
    IF "y0" \notin DOMAIN data \/ "label" \notin DOMAIN data
    THEN [w |-> w, err |-> Failure("missing")]
    ELSE IF ~data.y0.numeric
    THEN [w |-> w, err |-> Failure("type")]
    ELSE IF ArraySize(data.y0) # InputSize
    THEN [w |-> w, err |-> Failure("shape")]
    ELSE IF data.label.kind # "num"
    THEN [w |-> w, err |-> Failure("label")]
    ELSE LET label == PyInt(data.label.tenths)
         IN  IF label < 0 \/ label > 9
             THEN [w |-> w, err |-> Failure("range")]
             ELSE [w |-> Backprop(w, data.y0.px, label), err |-> NoError]

RECURSIVE TrainLoop_skipsBadSample(_, _, _)
\* A loop that skips a failing sample, trains on the rest and raises at the end.
TrainLoop_skipsBadSample(w, training_data_array, idx) ==
    IF idx >= Len(training_data_array)
    THEN [w |-> w, ret |-> "None", kind |-> "none", idx |-> -1]
    ELSE LET r == TrainSample(w, training_data_array[idx + 1])
             rest == TrainLoop_skipsBadSample(r.w, training_data_array, idx + 1)
         IN  IF r.err.ret # "None"
             THEN [w |-> rest.w, ret |-> r.err.ret, kind |-> r.err.kind, idx |-> idx]
             ELSE rest

RECURSIVE TrainLoop(_, _, _)
\* for idx, data in enumerate(training_data_array), from position idx on: the
\* first failure is raised with its position and ends the loop.
TrainLoop(w, training_data_array, idx) ==
    IF idx >= Len(training_data_array)
    THEN [w |-> w, ret |-> "None", kind |-> "none", idx |-> -1]
    ELSE LET r == TrainSample(w, training_data_array[idx + 1])
         IN  IF r.err.ret # "None"
             THEN [w |-> r.w, ret |-> r.err.ret, kind |-> r.err.kind, idx |-> idx]
             ELSE TrainLoop(r.w, training_data_array, idx + 1)

\* A train that takes an empty array for a batch with nothing to do.
TrainResult_acceptsEmpty(w, training_data_array) ==
    TrainLoop(w, training_data_array, 0)

\* train(training_data_array) from weights w: the weights it leaves and the
\* error it raises.
TrainResult(w, training_data_array) ==
    IF training_data_array = <<>>
    THEN [w |-> w, ret |-> "ValueError", kind |-> "empty", idx |-> -1]
    ELSE TrainLoop(w, training_data_array, 0)

\* train(training_data_array)
train(training_data_array) ==
    LET r == TrainResult(Weights, training_data_array)
    IN  /\ submitted + Len(training_data_array) <= MaxSamples
        /\ submitted' = submitted + Len(training_data_array)
        /\ SetWeights(r.w)
        /\ last' = [op |-> "train", batch |-> training_data_array, pre |-> Weights,
                    ret |-> r.ret, kind |-> r.kind, idx |-> r.idx]
        /\ saved' = IF saved = <<>> \/ r.w = Weights THEN saved
                    ELSE <<[saved[1] EXCEPT !.dirty = TRUE]>>
        /\ predicted' = {}
        /\ UNCHANGED <<num_hidden_nodes, use_file, files, clock, saveRun, created, requests>>

NextTrain == \E b \in Batches(MaxSamples - submitted) : train(b)

SpecTrain == Init /\ [][NextTrain]_vars

\* Batches of one sample: two valid ones and one with a label out of range.
SingleSamples ==
    {<<[y0 |-> Pixels(InputSize, 1), label |-> Number(t)]>> : t \in {0, 90, 100}}

\* Training, which modifies the weights in memory, between saves and loads of
\* the record.
NextRoundTrip ==
    \/ SetUseFile(TRUE)
    \/ \E b \in SingleSamples : train(b)
    \/ save(MaxBackups)
    \/ _load

SpecRoundTrip == Init /\ [][NextRoundTrip]_vars

----------------------------------------------------------------------------
(* Construction and prediction *)

\* The shape __init__ gives tensor f of a network of h hidden nodes.
Shape(f, h) ==
    CASE f = "theta1" -> <<h, InputSize>>
      [] f = "theta2" -> <<OutputSize, h>>
      [] f = "input_layer_bias" -> <<h, 1>>
      [] f = "hidden_layer_bias" -> <<OutputSize, 1>>

\* The four calls of _rand_initialize_weights in __init__: draw number i for a
\* network of h hidden nodes.  A constructor's draw is numbered by the time it
\* is made, negated: it differs from every draw made before.
RandomInit(h, i) ==
    [f \in Fields |-> [k |-> "init", id |-> i, shape |-> Shape(f, h)]]

RECURSIVE TensorShape(_)
\* The shape of a tensor value: the shape it was drawn with; the in-place
\* addition of an update leaves the shape of the tensor it adds to.
TensorShape(v) == IF v.k = "init" THEN v.shape ELSE TensorShape(v.pre[v.f])

\* The hidden-node counts instances are built with: the fixture's and the
\* server's.
HiddenNodeCounts == {NumHidden, 20}

\* The data set handed to the constructor: pixel vectors and their labels.
data_matrix == <<1, 2>>
data_labels == <<5, 3>>

\* The training_indices handed to the constructor: none, and both positions of
\* the data set in either order.
TrainingIndices == {<<>>, <<1, 2>>, <<2, 1>>}

\* max_backups of the save() that __init__ calls.
DefaultMaxBackups == 5

\* A constructor that trains the freshly drawn weights even when it loads.
Construct_trainsThenLoads(h, use, training_indices) ==
    LET trained == _train(RandomInit(h, -(clock + 1)), data_matrix, data_labels, training_indices)
        persist == use
    IN  /\ clock < MaxClock
        /\ num_hidden_nodes' = h
        /\ use_file' = use
        /\ SetWeights(IF use /\ record # <<>> THEN FromJson(record[1].content)
                      ELSE trained)
        /\ clock' = clock + 1
        /\ record' = IF persist
                     THEN <<[mtime |-> clock', content |-> ToJson(trained)]>>
                     ELSE record
        /\ last' = [op |-> "construct", h |-> h, use |-> use,
                    init |-> RandomInit(h, -(clock + 1)), indices |-> training_indices,
                    path |-> IF use /\ record # <<>> THEN "load" ELSE "train"]
        /\ saveRun' = <<>>
        /\ saved' = IF persist THEN <<[w |-> trained, dirty |-> FALSE]>> ELSE saved
        /\ predicted' = {}
        /\ UNCHANGED <<backups, created, submitted, requests>>

\* OCRNeuralNetwork(num_hidden_nodes, data_matrix, data_labels,
\* training_indices, use_file): the instance the model follows from now on.
\* The tensors are drawn at random; then either the record is loaded, or one
\* epoch of _train runs and save() is called, which writes the record when
\* persistence is on (no record exists on that path, so it makes no backup).
\* Time passes while an instance is built: the clock ticks.
Construct(h, use, training_indices) ==
    LET init == RandomInit(h, -(clock + 1))
        loads == use /\ record # <<>>
        trained == _train(init, data_matrix, data_labels, training_indices)
        persist == ~loads /\ use
    IN  /\ clock < MaxClock
        /\ num_hidden_nodes' = h
        /\ use_file' = use
        /\ SetWeights(IF loads THEN FromJson(record[1].content) ELSE trained)
        /\ clock' = clock + 1
        /\ record' = IF persist
                     THEN <<[mtime |-> clock', content |-> ToJson(trained)]>>
                     ELSE record
        /\ last' = [op |-> "construct", h |-> h, use |-> use, init |-> init,
                    indices |-> training_indices,
                    path |-> IF loads THEN "load" ELSE "train"]
        /\ saveRun' = IF persist /\ backups = {}
                      THEN <<[k |-> DefaultMaxBackups, n |-> 1]>>
                      ELSE IF loads THEN saveRun ELSE <<>>
        /\ saved' = IF persist THEN <<[w |-> trained, dirty |-> FALSE]>>
                    ELSE IF loads \/ saved = <<>> THEN saved
                    ELSE <<[saved[1] EXCEPT !.dirty = TRUE]>>
        /\ predicted' = {}
        /\ UNCHANGED <<backups, created, submitted, requests>>

\* The label predict computes from weights w and pixel vector x: the index of
\* the largest output activation of the forward propagation of x through w.
Label(w, x) == [k |-> "argmax", w |-> w, x |-> x]

\* What predict(test) returns or raises on weights w.
Prediction(w, test) ==
    IF ~test.numeric THEN [ret |-> "ValueError", kind |-> "type"]
    ELSE IF ArraySize(test) # InputSize THEN [ret |-> "ValueError", kind |-> "shape"]
    ELSE [ret |-> "label", label |-> Label(w, test.px)]

\* The pixel vectors handed to predict: well-formed, too short, not numeric.
PredictInputs == {Pixels(InputSize, 1), Pixels(100, 1), NotNumbers(InputSize)}

\* A predict that also takes the backpropagation step of train on its input.
predict_updatesWeights(test) ==
    LET r == Prediction(Weights, test)
    IN  /\ last' = [op |-> "predict", test |-> test, out |-> r]
        /\ predicted' = predicted \cup {<<test, r>>}
        /\ SetWeights(IF r.ret = "label" THEN Backprop(Weights, test.px, 0)
                      ELSE Weights)
        /\ UNCHANGED <<num_hidden_nodes, use_file, files, clock, history, requests>>

\* predict(test)
predict(test) ==
    LET r == Prediction(Weights, test)
    IN  /\ last' = [op |-> "predict", test |-> test, out |-> r]
        /\ predicted' = predicted \cup {<<test, r>>}
        /\ UNCHANGED <<tensors, num_hidden_nodes, use_file, files, clock, history, requests>>

\* Instances built on the shared path, trained, queried, saved, loaded and
\* restored.
NextInstance ==
    \/ /\ clock < MaxLife
       /\ \E h \in HiddenNodeCounts, use \in BOOLEAN, ti \in TrainingIndices :
             Construct(h, use, ti)
    \/ \E b \in SingleSamples : train(b)
    \/ predict(Pixels(InputSize, 1))
    \/ clock < MaxLife /\ save(MaxBackups)
    \/ _load
    \/ restore_from_backup(0)

SpecInstance == Init /\ [][NextInstance]_vars

\* A record cut short by a failed write: not a JSON document.
Truncated == [k |-> "truncated"]

\* The steps of save at which file I/O can fail: the copy of the backup, the
\* pruning, the opening of the record for writing, the writing.
FailurePoints == {"backup", "prune", "open", "write"}

\* A failed save that puts the tensors of the previous record back in memory.
save_fails_reloadsRecord(max_backups, at) ==
    /\ use_file
    /\ clock < MaxClock
    /\ at \in {"backup", "prune"} => record # <<>>
    /\ clock' = clock + 1
    /\ backups' =
          IF record = <<>> THEN backups
          ELSE IF at = "backup"
          THEN BackupCopy(backups, [mtime |-> clock', content |-> Truncated], clock')
          ELSE IF at = "prune"
          THEN BackupCopy(backups, record[1], clock')
          ELSE _cleanup_old_backups(BackupCopy(backups, record[1], clock'),
                                    max_backups)
    /\ record' = IF at = "write"
                 THEN <<[mtime |-> clock', content |-> Truncated]>>
                 ELSE record
    /\ last' = [op |-> "save", arg |-> max_backups, ret |-> "OSError", at |-> at]
    /\ saveRun' = <<>>
    /\ created' = IF record # <<>> THEN created \cup {clock'} ELSE created
    /\ saved' = IF at = "write" THEN <<>> ELSE saved
    /\ SetWeights(IF record # <<>> /\ record[1].content # Truncated
                  THEN FromJson(record[1].content)
                  ELSE Weights)
    /\ UNCHANGED <<num_hidden_nodes, use_file, submitted, predicted, requests>>

\* save(max_backups) when file I/O fails at step `at` and the error reaches the
\* caller.  A failed copy leaves a backup cut short; a failed pruning leaves
\* the new backup and removes nothing; a failed open leaves the record as it
\* was; a failed write leaves a record cut short.
save_fails(max_backups, at) ==
    /\ use_file
    /\ clock < MaxClock
    /\ at \in {"backup", "prune"} => record # <<>>
    /\ clock' = clock + 1
    /\ backups' =
          IF record = <<>> THEN backups
          ELSE IF at = "backup"
          THEN BackupCopy(backups, [mtime |-> clock', content |-> Truncated], clock')
          ELSE IF at = "prune"
          THEN BackupCopy(backups, record[1], clock')
          ELSE _cleanup_old_backups(BackupCopy(backups, record[1], clock'),
                                    max_backups)
    /\ record' = IF at = "write"
                 THEN <<[mtime |-> clock', content |-> Truncated]>>
                 ELSE record
    /\ last' = [op |-> "save", arg |-> max_backups, ret |-> "OSError", at |-> at]
    /\ saveRun' = <<>>
    /\ created' = IF record # <<>> THEN created \cup {clock'} ELSE created
    /\ saved' = IF at = "write" THEN <<>> ELSE saved
    /\ UNCHANGED <<tensors, num_hidden_nodes, use_file, submitted, predicted, requests>>

\* Saves that succeed and saves that fail, between training and predictions.
NextSaveFailure ==
    \/ SetUseFile(TRUE)
    \/ train(<<[y0 |-> Pixels(InputSize, 1), label |-> Number(0)]>>)
    \/ predict(Pixels(InputSize, 1))
    \/ save(MaxBackups)
    \/ \E at \in FailurePoints : save_fails(MaxBackups, at)

SpecSaveFailure == Init /\ [][NextSaveFailure]_vars

\* Instances built one after another on the shared path, with training and
\* saves between the constructions.
NextConstruct ==
    \/ /\ clock < MaxLife
       /\ \E h \in HiddenNodeCounts, use \in BOOLEAN, ti \in TrainingIndices :
             Construct(h, use, ti)
    \/ train(<<[y0 |-> Pixels(InputSize, 1), label |-> Number(0)]>>)
    \/ clock < MaxLife /\ save(MaxBackups)

SpecConstruct == Init /\ [][NextConstruct]_vars

\* Predictions between training, saves and loads of one instance.
\* The files a path can hold when an instance comes to load it: a record as
\* save writes it, a record that lacks some of the four fields, and a file cut
\* short that is not a JSON document.
RecordContents ==
    {Truncated} \cup
    {[key \in keys |-> ToJson(RandomInit(NumHidden, 1))[key]] :
        keys \in (SUBSET {"theta1", "theta2", "b1", "b2"}) \ {{}}}

\* An instance with persistence enabled, on a path that holds no file or one
\* of these files.
InitLoad ==
    /\ theta1 = InitValue("theta1", 0)
    /\ theta2 = InitValue("theta2", 0)
    /\ input_layer_bias = InitValue("input_layer_bias", 0)
    /\ hidden_layer_bias = InitValue("hidden_layer_bias", 0)
    /\ use_file = TRUE
    /\ record \in {<<>>} \cup {<<[mtime |-> 0, content |-> c]>> : c \in RecordContents}
    /\ backups = {}
    /\ clock = 0
    /\ last = [op |-> "init"]
    /\ saveRun = <<>>
    /\ created = {}
    /\ saved = <<>>
    /\ submitted = 0
    /\ num_hidden_nodes = NumHidden
    /\ predicted = {}
    /\ requests = <<>>

\* Loads of whatever the path holds, between training and saves.
NextLoad ==
    \/ _load
    \/ train(<<[y0 |-> Pixels(InputSize, 1), label |-> Number(0)]>>)
    \/ clock < MaxLife /\ save(MaxBackups)

SpecLoad == InitLoad /\ [][NextLoad]_vars

NextPredict ==
    \/ SetUseFile(TRUE)
    \/ train(<<[y0 |-> Pixels(InputSize, 1), label |-> Number(0)]>>)
    \/ \E t \in PredictInputs : predict(t)
    \/ save(MaxBackups)
    \/ _load

SpecPredict == Init /\ [][NextPredict]_vars

----------------------------------------------------------------------------
(* Properties of the persistence operations, checked under Spec (C6 under   *)
(* SpecRoundTrip, where training modifies the weights between save and     *)
(* load)                                                                   *)

Names(bs) == {b.ts : b \in bs}

\* The number of backups in bs created after b (the backup's name stamps the
\* time of its creation).
NewerCreated(bs, b) == Cardinality({c \in bs : c.ts > b.ts})

\* The k latest of the timestamps in s.
Latest(s, k) == {t \in s : Cardinality({u \in s : u > t}) < k}

\* C1: starting from a path with no record and no backups, after N save(K)
\* calls with persistence enabled and N > K >= 0, exactly K backups exist and
\* they are the K most recently created ones.
C1_RetainsLatestK ==
    (saveRun # <<>> /\ saveRun[1].k >= 0 /\ saveRun[1].n > saveRun[1].k) =>
        /\ Cardinality(backups) = saveRun[1].k
        /\ Names(backups) = Latest(created, saveRun[1].k)

\* Four save(2) calls on a fresh path: three backups were created, one pruned.
C1_Witness ==
    /\ saveRun = <<[k |-> 2, n |-> 4]>>
    /\ last.op = "save"
    /\ Cardinality(created) = 3
    /\ Cardinality(backups) = 2

\* C2: whatever saves and restores came before, the pruning done by a save
\* evicts the earliest-created backups first: it never evicts a backup created
\* later than one it keeps.
C2_FifoEviction ==
    [][LET before == Names(backups) \cup
                        (IF use_file /\ record # <<>> THEN {clock'} ELSE {})
           after == Names(backups')
       IN  \A e \in before \ after : \A kept \in after : e < kept]_vars

\* C3: restore_from_backup(index) returns False for every index that is not in
\* 0..(number of backups - 1), negative indices included.
C3_OutOfRangeReturnsFalse ==
    (last.op = "restore" /\ last.arg \notin 0..(Cardinality(backups) - 1)) =>
        last.ret = "False"

\* C4: with persistence enabled and 0 <= index < number of backups,
\* restore_from_backup(index) returns True and leaves the record and the four
\* tensors equal to the content of the index-th most recently created backup.
C4_RestoresIndexThNewest ==
    (last.op = "restore" /\ use_file /\ last.arg \in 0..(Cardinality(backups) - 1)) =>
        /\ last.ret = "True"
        /\ \E b \in backups :
              /\ NewerCreated(backups, b) = last.arg
              /\ record # <<>>
              /\ record[1].content = b.content
              /\ ToJson(Weights) = b.content

\* C5: in every state reached by saves and restores, restore_from_backup(i)
\* picks the backup that list_backups() reports at position i.
C5_RestoreAgreesWithList ==
    \A i \in 1..Cardinality(backups) :
        RestoreOrder(backups)[i].ts = ListOrder(backups)[i].ts

\* C6: save, then any modification of the tensors in memory, then load: all
\* four tensors are again what they were at the save.
C6_SaveLoadRoundTrip ==
    (last.op = "load" /\ last.ret = "None" /\ use_file /\ saved # <<>>) =>
        Weights = saved[1].w

\* A load of a record saved after training, after more training modified all
\* four tensors in memory since the save.
C6_Witness ==
    /\ last.op = "load" /\ last.ret = "None" /\ use_file
    /\ saved # <<>> /\ saved[1].dirty
    /\ submitted >= 2
    /\ \A f \in Fields : saved[1].w[f].k = "upd"
    /\ Weights = saved[1].w

----------------------------------------------------------------------------
(* Properties of train, checked under SpecTrain *)

\* A sample train's validation rejects.
InvalidSample(data) ==
    \/ DOMAIN data # {"y0", "label"}
    \/ ~data.y0.numeric
    \/ ArraySize(data.y0) # InputSize
    \/ data.label.kind # "num"
    \/ PyInt(data.label.tenths) \notin 0..9

\* The 1-based position of the first invalid sample of a batch, 0 if none.
FirstInvalid(batch) ==
    IF \E i \in 1..Len(batch) : InvalidSample(batch[i])
    THEN CHOOSE i \in 1..Len(batch) :
            /\ InvalidSample(batch[i])
            /\ \A j \in 1..(i - 1) : ~InvalidSample(batch[j])
    ELSE 0

\* The weights the epoch routine _train leaves from w on the first n samples of
\* a batch, in order.
EpochOnPrefix(w, batch, n) ==
    _train(w,
           [i \in 1..n |-> batch[i].y0.px],
           [i \in 1..n |-> PyInt(batch[i].label.tenths)],
           [i \in 1..n |-> i])

\* C7: when train fails because the sample at 0-based position k is invalid,
\* the error names k and the weights are those of training on samples 0..k-1
\* in order: earlier updates are kept and no later sample has any effect.
C7_FailureKeepsEarlierUpdates ==
    (last.op = "train" /\ FirstInvalid(last.batch) > 0) =>
        LET k == FirstInvalid(last.batch) - 1
        IN  /\ last.ret = "ValueError"
            /\ last.idx = k
            /\ Weights = EpochOnPrefix(last.pre, last.batch, k)

\* A batch of two different valid samples followed by an invalid one.
C7_Witness ==
    /\ last.op = "train" /\ last.ret = "ValueError" /\ last.idx = 2
    /\ last.batch[1] # last.batch[2]
    /\ Weights # last.pre
    /\ Weights = EpochOnPrefix(last.pre, last.batch, 2)

RECURSIVE WholeSteps(_, _)
\* w is reached from pre by complete steps only: in each, all four tensors
\* carry the update of the same sample, computed from the same weights.
WholeSteps(w, pre) ==
    \/ w = pre
    \/ /\ \A f \in Fields : w[f].k = "upd" /\ w[f].f = f
       /\ \A f \in Fields :
             /\ w[f].pre = w.theta1.pre
             /\ w[f].x = w.theta1.x
             /\ w[f].label = w.theta1.label
       /\ WholeSteps(w.theta1.pre, pre)

\* C8: a training step is atomic on the four tensors: after any train call,
\* failed or not, every sample has updated all four tensors or none of them.
C8_StepIsAtomic ==
    last.op = "train" => WholeSteps(Weights, last.pre)

\* A call that trained on one sample and failed validation on the next.
C8_Witness ==
    /\ last.op = "train" /\ last.ret = "ValueError" /\ last.kind = "range"
    /\ last.idx = 1
    /\ Weights = Backprop(last.pre, last.batch[1].y0.px,
                          PyInt(last.batch[1].label.tenths))

\* A label that is an integer in 0..9.
IntegerLabelInRange(label) ==
    /\ label.kind = "num"
    /\ label.tenths % 10 = 0
    /\ label.tenths \div 10 \in 0..9

WellFormedPixels(data) ==
    /\ "y0" \in DOMAIN data
    /\ data.y0.numeric
    /\ ArraySize(data.y0) = InputSize

\* C9: train rejects every sample whose label is not an integer in 0..9 (below
\* 0, above 9, or not integral) without applying its update, and accepts every
\* integer label in 0..9.
C9_LabelMustBeIntegerInRange ==
    (/\ last.op = "train"
     /\ last.batch # <<>>
     /\ \A i \in 1..Len(last.batch) :
            WellFormedPixels(last.batch[i]) /\ "label" \in DOMAIN last.batch[i]) =>
        LET bad == {i \in 1..Len(last.batch) :
                        ~IntegerLabelInRange(last.batch[i].label)}
        IN  IF bad = {}
            THEN last.ret = "None"
            ELSE /\ last.ret = "ValueError"
                 /\ \A i \in bad : last.idx <= i - 1
                 /\ last.idx + 1 \in bad
                 /\ Weights = EpochOnPrefix(last.pre, last.batch, last.idx)

\* C10: train on an empty sequence fails with the empty-input error, is never
\* a successful no-op, and leaves the four tensors unchanged.
C10_EmptyBatchRejected ==
    (last.op = "train" /\ last.batch = <<>>) =>
        /\ last.ret = "ValueError"
        /\ last.kind = "empty"
        /\ Weights = last.pre

\* train([]) on a network that has been trained before.
C10_Witness ==
    /\ last.op = "train" /\ last.batch = <<>>
    /\ last.ret = "ValueError"
    /\ Weights.theta1.k = "upd"
    /\ Weights = last.pre

\* A sample both routines take: 400 numbers and an integer label in 0..9.
WellFormedSample(data) ==
    /\ DOMAIN data = {"y0", "label"}
    /\ WellFormedPixels(data)
    /\ IntegerLabelInRange(data.label)

\* C26: on a non-empty sequence of well-formed samples, train succeeds and
\* leaves the four tensors that the epoch routine _train leaves from the same
\* starting weights on the same pixel vectors and labels in the same order.
C26_TrainAgreesWithEpoch ==
    (/\ last.op = "train"
     /\ last.batch # <<>>
     /\ \A i \in 1..Len(last.batch) : WellFormedSample(last.batch[i])) =>
        /\ last.ret = "None"
        /\ Weights = _train(last.pre,
                            [i \in 1..Len(last.batch) |-> last.batch[i].y0.px],
                            [i \in 1..Len(last.batch) |-> last.batch[i].label.tenths \div 10],
                            [i \in 1..Len(last.batch) |-> i])

\* A successful train on two well-formed samples of different labels, on a
\* network an earlier call has trained.
C26_Witness ==
    /\ last.op = "train" /\ last.ret = "None"
    /\ Len(last.batch) = 2
    /\ \A i \in 1..2 : WellFormedSample(last.batch[i])
    /\ last.batch[1].label # last.batch[2].label
    /\ last.pre.theta1.k = "upd"
    /\ Weights # last.pre

----------------------------------------------------------------------------
(* The decoding of the output layer *)

\* The values an output activation takes: MaxLevel + 1 levels, in order.
Activations == [1..OutputSize -> 0..MaxLevel]

\* max(results)
PyMax(results) ==
    CHOOSE v \in {results[i] : i \in 1..Len(results)} :
        \A i \in 1..Len(results) : results[i] <= v

\* An index search that keeps the last position holding the value.
PyListIndex_keepsLast(results, v) ==
    (CHOOSE i \in 1..Len(results) :
        /\ results[i] = v
        /\ \A j \in (i + 1)..Len(results) : results[j] # v) - 1

\* results.index(v): the 0-based position of the first element equal to v.
PyListIndex(results, v) ==
    (CHOOSE i \in 1..Len(results) :
        /\ results[i] = v
        /\ \A j \in 1..(i - 1) : results[j] # v) - 1

\* The forward propagation of a well-formed pixel vector has left the output
\* activations y2.flatten().tolist() = results.
InitForward ==
    /\ theta1 = InitValue("theta1", 0)
    /\ theta2 = InitValue("theta2", 0)
    /\ input_layer_bias = InitValue("input_layer_bias", 0)
    /\ hidden_layer_bias = InitValue("hidden_layer_bias", 0)
    /\ use_file = FALSE
    /\ record = <<>>
    /\ backups = {}
    /\ clock = 0
    /\ last \in {[op |-> "forward", results |-> r] : r \in Activations}
    /\ saveRun = <<>>
    /\ created = {}
    /\ saved = <<>>
    /\ submitted = 0
    /\ num_hidden_nodes = NumHidden
    /\ predicted = {}
    /\ requests = <<>>

\* return results.index(max(results)), the last statement of predict.
predict_return ==
    /\ last.op = "forward"
    /\ last' = [op |-> "predict_return", results |-> last.results,
                ret |-> PyListIndex(last.results, PyMax(last.results))]
    /\ UNCHANGED <<tensors, num_hidden_nodes, use_file, files, clock, history,
                   predicted, requests>>

SpecDecode == InitForward /\ [][predict_return]_vars

----------------------------------------------------------------------------
(* Floating-point numbers: the non-negative binary64 values model_test        *)
(* computes with.  A number is zero, or a significand m of Precision bits,   *)
(* the first of them 1 and of weight 2^e; every operation rounds its exact   *)
(* result to the nearest such number, ties to the even significand.          *)

Precision == 53

Zero == [z |-> TRUE, e |-> 0, m |-> <<>>]

\* The number nearest to the exact value with leading bits `bits` (the first
\* of them 1, of weight 2^e) followed by further bits that are all zero unless
\* sticky.
Round(bits, e, sticky) ==
    LET n == Len(bits)
        m == [i \in 1..Precision |-> IF i <= n THEN bits[i] ELSE 0]
        guard == IF n > Precision THEN bits[Precision + 1] ELSE 0
        rest == sticky \/ \E i \in (Precision + 2)..n : bits[i] = 1
        up == guard = 1 /\ (rest \/ m[Precision] = 1)
    IN  IF ~up THEN [z |-> FALSE, e |-> e, m |-> m]
        ELSE IF \A i \in 1..Precision : m[i] = 1
        THEN [z |-> FALSE, e |-> e + 1,
              m |-> [i \in 1..Precision |-> IF i = 1 THEN 1 ELSE 0]]
        ELSE LET low == CHOOSE k \in 1..Precision :
                           m[k] = 0 /\ \A j \in (k + 1)..Precision : m[j] = 1
             IN  [z |-> FALSE, e |-> e,
                  m |-> [i \in 1..Precision |->
                            IF i < low THEN m[i] ELSE IF i = low THEN 1 ELSE 0]]

RECURSIVE BitsOf(_)
\* The binary digits of a positive integer, most significant first.
BitsOf(c) == IF c = 0 THEN <<>> ELSE BitsOf(c \div 2) \o <<c % 2>>

\* float(c) of an integer c >= 0.
FromInt(c) == IF c = 0 THEN Zero ELSE Round(BitsOf(c), Len(BitsOf(c)) - 1, FALSE)

RECURSIVE Pow2Mod(_, _)
\* 2^k modulo d.
Pow2Mod(k, d) == IF k < 16 THEN (2 ^ k) % d ELSE (Pow2Mod(k - 16, d) * (2 ^ 16 % d)) % d

\* a / d for a number a and an integer d >= 1: long division of the
\* significand, then rounding.  rem[i] is the remainder left after the first i
\* bits of the dividend, the sum of their contributions modulo d; q[i] is the
\* quotient bit at position i.
FloatDivInt(a, d) ==
    IF a.z THEN Zero
    ELSE LET L == Precision + Len(BitsOf(d)) + 1
             in == [i \in 1..L |-> IF i <= Precision THEN a.m[i] ELSE 0]
             pow == [k \in 0..L |-> Pow2Mod(k, d)]
             rem == [i \in 0..L |->
                        Cardinality({p \in (1..i) \X (1..d) :
                                        p[2] <= in[p[1]] * pow[i - p[1]]}) % d]
             q == [i \in 1..L |-> (2 * rem[i - 1] + in[i]) \div d]
             first == CHOOSE i \in 1..L : q[i] = 1 /\ \A j \in 1..(i - 1) : q[j] = 0
         IN  Round([j \in 1..(L - first + 1) |-> q[first + j - 1]],
                   a.e - (first - 1), rem[L] # 0)

\* a + b: the exact sum of the aligned significands, then rounding.  The carry
\* into position i comes from the nearest position below it where both bits
\* are 1, through positions where exactly one is.  A number below a quarter of
\* the last place of the other leaves the other.
FloatAdd(a, b) ==
    IF a.z THEN b
    ELSE IF b.z THEN a
    ELSE IF a.e - b.e > Precision + 2 THEN a
    ELSE IF b.e - a.e > Precision + 2 THEN b
    ELSE LET e == IF a.e >= b.e THEN a.e ELSE b.e
             emin == IF a.e >= b.e THEN b.e ELSE a.e
             n == Precision + (e - emin)
             A == [i \in 1..n |->
                     IF i - (e - a.e) \in 1..Precision THEN a.m[i - (e - a.e)] ELSE 0]
             B == [i \in 1..n |->
                     IF i - (e - b.e) \in 1..Precision THEN b.m[i - (e - b.e)] ELSE 0]
             carry == [i \in 0..n |->
                         IF \E j \in (i + 1)..n :
                               /\ A[j] + B[j] = 2
                               /\ \A k \in (i + 1)..(j - 1) : A[k] + B[k] = 1
                         THEN 1 ELSE 0]
             sum == [i \in 1..n |-> (A[i] + B[i] + carry[i]) % 2]
         IN  IF carry[0] = 1 THEN Round(<<1>> \o sum, e + 1, FALSE)
             ELSE Round(sum, e, FALSE)

\* a < b
FloatLess(a, b) ==
    IF b.z THEN FALSE
    ELSE IF a.z THEN TRUE
    ELSE \/ a.e < b.e
         \/ /\ a.e = b.e
            /\ \E i \in 1..Precision :
                  a.m[i] < b.m[i] /\ \A j \in 1..(i - 1) : a.m[j] = b.m[j]

One == FromInt(1)

\* The number next above a positive number a.
NextUp(a) ==
    IF \A i \in 1..Precision : a.m[i] = 1
    THEN [z |-> FALSE, e |-> a.e + 1,
          m |-> [i \in 1..Precision |-> IF i = 1 THEN 1 ELSE 0]]
    ELSE LET low == CHOOSE k \in 1..Precision :
                       a.m[k] = 0 /\ \A j \in (k + 1)..Precision : a.m[j] = 1
         IN  [z |-> FALSE, e |-> a.e,
              m |-> [i \in 1..Precision |->
                        IF i < low THEN a.m[i] ELSE IF i = low THEN 1 ELSE 0]]

RECURSIVE UpWithin(_, _, _)
\* b is a or one of the k numbers next above a.
UpWithin(a, b, k) == a = b \/ (k > 0 /\ ~a.z /\ UpWithin(NextUp(a), b, k - 1))

RECURSIVE IntOf(_)
\* The integer whose binary digits, most significant first, are bits.
IntOf(bits) ==
    IF bits = <<>> THEN 0
    ELSE 2 * IntOf(SubSeq(bits, 1, Len(bits) - 1)) + bits[Len(bits)]

\* The n binary digits of c < 2^n, most significant first.
Digits2(c, n) == [i \in 1..n |-> (c \div (2 ^ (n - i))) % 2]

\* The number whose leading bit has weight 2^e and whose significand is
\* hi * 2^27 + lo, with hi of 26 bits and lo of 27.
Binary64(e, hi, lo) == [z |-> FALSE, e |-> e, m |-> Digits2(hi, 26) \o Digits2(lo, 27)]

\* The upper 26 and the lower 27 bits of a significand, as integers.
Hi(a) == IntOf(SubSeq(a.m, 1, 26))
Lo(a) == IntOf(SubSeq(a.m, 27, Precision))

RECURSIVE DivBits(_, _, _, _, _)
\* n quotient bits of the long division of rh * 2^27 + rl by dh * 2^27 + dl,
\* where the remainder is below twice the divisor, followed by one more that
\* tells whether a remainder is left.
DivBits(rh, rl, dh, dl, n) ==
    IF n = 0 THEN <<IF rh + rl = 0 THEN 0 ELSE 1>>
    ELSE LET q == IF rh > dh \/ (rh = dh /\ rl >= dl) THEN 1 ELSE 0
             borrow == IF q = 1 /\ rl < dl THEN 1 ELSE 0
             sl == IF q = 1 THEN rl - dl + borrow * (2 ^ 27) ELSE rl
             sh == IF q = 1 THEN rh - dh - borrow ELSE rh
         IN  <<q>> \o DivBits(2 * sh + sl \div (2 ^ 26), (2 * sl) % (2 ^ 27),
                              dh, dl, n - 1)

\* a / b for numbers a and b > 0: long division of the significands to three
\* bits beyond the precision, then rounding.
FloatDiv(a, b) ==
    IF a.z THEN Zero
    ELSE LET n == Precision + 3
             q == DivBits(Hi(a), Lo(a), Hi(b), Lo(b), n)
             first == IF q[1] = 1 THEN 1 ELSE 2
         IN  Round(SubSeq(q, first, n), a.e - b.e - (first - 1), q[n + 1] = 1)

\* a - b for numbers a >= b: the exact difference of the aligned significands,
\* then rounding.  The borrow from position i is taken by the nearest position
\* below it where a has 0 and b has 1, through positions where they agree.  A
\* b below a quarter of the last place of a leaves a.
FloatSub(a, b) ==
    IF b.z THEN a
    ELSE IF a = b THEN Zero
    ELSE IF a.e - b.e > Precision + 2 THEN a
    ELSE LET n == Precision + (a.e - b.e)
             A == [i \in 1..n |-> IF i <= Precision THEN a.m[i] ELSE 0]
             B == [i \in 1..n |->
                     IF i - (a.e - b.e) \in 1..Precision THEN b.m[i - (a.e - b.e)] ELSE 0]
             borrow == [i \in 1..n |->
                          IF \E j \in (i + 1)..n :
                                /\ A[j] < B[j]
                                /\ \A k \in (i + 1)..(j - 1) : A[k] = B[k]
                          THEN 1 ELSE 0]
             diff == [i \in 1..n |-> (A[i] + B[i] + borrow[i]) % 2]
             first == CHOOSE i \in 1..n : diff[i] = 1 /\ \A j \in 1..(i - 1) : diff[j] = 0
         IN  Round(SubSeq(diff, first, n), a.e - (first - 1), FALSE)

\* The four 14-bit limbs of a significand, the lowest first.
Limbs(a) == [i \in 0..3 |-> IntOf(SubSeq(<<0, 0, 0>> \o a.m, 43 - 14 * i, 56 - 14 * i))]

RECURSIVE ProductLimbs(_, _, _, _)
\* The 14-bit limbs k..7 of the product of two significands given by their
\* limbs, the highest first, with carry coming into limb k.
ProductLimbs(x, y, k, carry) ==
    IF k > 7 THEN <<>>
    ELSE LET t == carry +
                  (IF k \in 0..3 THEN x[0] * y[k] ELSE 0) +
                  (IF k - 1 \in 0..3 THEN x[1] * y[k - 1] ELSE 0) +
                  (IF k - 2 \in 0..3 THEN x[2] * y[k - 2] ELSE 0) +
                  (IF k - 3 \in 0..3 THEN x[3] * y[k - 3] ELSE 0)
         IN  ProductLimbs(x, y, k + 1, t \div (2 ^ 14)) \o Digits2(t % (2 ^ 14), 14)

\* a * b: the exact product of the significands, then rounding.
FloatMul(a, b) ==
    IF a.z \/ b.z THEN Zero
    ELSE LET p == ProductLimbs(Limbs(a), Limbs(b), 0, 0)
             first == CHOOSE i \in 1..Len(p) : p[i] = 1 /\ \A j \in 1..(i - 1) : p[j] = 0
         IN  Round(SubSeq(p, first, Len(p)), a.e + b.e + (8 - first), FALSE)

----------------------------------------------------------------------------
(* The activation function (ocr.py 42-59) in binary64 *)

\* The limit of np.clip(z, -500, 500).
ClipLimit == 500

\* The arguments sigmoid is given: an integer n times a power of ten, the
\* integers up to MaxZ in size and +-500, +-1e3 and +-1e10.
SigmoidInputs ==
    {[n |-> n, tens |-> 0] : n \in (-MaxZ)..MaxZ} \cup
    {[n |-> n, tens |-> 2] : n \in {-5, 5}} \cup
    {[n |-> n, tens |-> t] : n \in {-1, 1}, t \in {3, 10}}

\* A clip to -30..30.
Clip_at30(z) ==
    IF z.n = 0 THEN 0
    ELSE IF z.tens >= 2 \/ z.n > 30 THEN (IF z.n > 0 THEN 30 ELSE -30)
    ELSE IF z.n < -30 THEN -30
    ELSE z.n

\* np.clip(z, -500, 500)
Clip(z) ==
    IF z.n = 0 THEN 0
    ELSE IF z.tens >= 3 THEN (IF z.n > 0 THEN ClipLimit ELSE -ClipLimit)
    ELSE LET v == z.n * (10 ^ z.tens)
         IN  IF v > ClipLimit THEN ClipLimit
             ELSE IF v < -ClipLimit THEN -ClipLimit
             ELSE v

\* math.e ** -k for k = 0, 1, ..., 45, as the C library's pow returns it: the
\* exponent of the leading bit, and the upper 26 and lower 27 bits of the
\* significand.
PowTable ==
    <<<<0, 33554432, 0>>, <<-2, 49375942, 103608120>>, <<-3, 36328788, 62882252>>,
      <<-5, 53458457, 80654512>>, <<-6, 39332535, 2178294>>, <<-8, 57878524, 873336>>,
      <<-9, 42584638, 18076888>>, <<-11, 62664051, 69511570>>, <<-12, 46105632, 68167599>>,
      <<-13, 33922628, 86398044>>, <<-15, 49917750, 90471582>>, <<-16, 36727428, 59729767>>,
      <<-18, 54045063, 54770832>>, <<-19, 39764135, 60300700>>, <<-21, 58513631, 95426072>>,
      <<-22, 43051924, 36170813>>, <<-24, 63351671, 49186258>>, <<-25, 46611554, 123365538>>,
      <<-26, 34294865, 74031013>>, <<-28, 50465503, 120346488>>, <<-29, 37130442, 99840620>>,
      <<-31, 54638106, 14529524>>, <<-32, 40200471, 118586793>>, <<-34, 59155708, 70515387>>,
      <<-35, 43524337, 132719249>>, <<-37, 64046836, 73384761>>, <<-38, 47123028, 117472842>>,
      <<-39, 34671187, 7765665>>, <<-41, 51019267, 91050948>>, <<-42, 37537879, 48989352>>,
      <<-44, 55237656, 44859265>>, <<-45, 40641596, 38616003>>, <<-47, 59804830, 123823222>>,
      <<-48, 44001935, 74931634>>, <<-50, 64749629, 114698928>>, <<-51, 47640115, 39448812>>,
      <<-52, 35051637, 131981421>>, <<-54, 51579107, 130703459>>, <<-55, 37949786, 112079629>>,
      <<-57, 55843785, 66280263>>, <<-58, 41087561, 26942000>>, <<-60, 60461076, 28788786>>,
      <<-61, 44484773, 115537769>>, <<-63, 65460134, 133443410>>, <<-64, 48162875, 102189307>>,
      <<-65, 35436263, 85980488>>>>

\* math.e ** -k for a whole k of the table, and for k = 500.
EPowMinus(k) ==
    IF k = ClipLimit THEN Binary64(-722, 52743119, 13911113)
    ELSE Binary64(PowTable[k + 1][1], PowTable[k + 1][2], PowTable[k + 1][3])

\* _sigmoid_scalar(z): the power, the sum in the denominator and the quotient
\* it returns.
_sigmoid_scalar(z) ==
    LET c == Clip(z)
        exp_z == EPowMinus(IF c >= 0 THEN c ELSE -c)
        sum == FloatAdd(One, exp_z)
    IN  [exp_z |-> exp_z, sum |-> sum,
         ret |-> IF c >= 0 THEN FloatDiv(One, sum) ELSE FloatDiv(exp_z, sum)]

\* sigmoid_prime(z) = sigmoid(z) * (1 - sigmoid(z)), on one element.
SigmoidPrime(z) ==
    LET s == _sigmoid_scalar(z).ret
    IN  FloatMul(s, FloatSub(One, s))

\* An instance of the fixture about to be given the argument z.
InitSigmoid ==
    /\ theta1 = InitValue("theta1", 0)
    /\ theta2 = InitValue("theta2", 0)
    /\ input_layer_bias = InitValue("input_layer_bias", 0)
    /\ hidden_layer_bias = InitValue("hidden_layer_bias", 0)
    /\ use_file = FALSE
    /\ record = <<>>
    /\ backups = {}
    /\ clock = 0
    /\ last \in {[op |-> "argument", z |-> z] : z \in SigmoidInputs}
    /\ saveRun = <<>>
    /\ created = {}
    /\ saved = <<>>
    /\ submitted = 0
    /\ num_hidden_nodes = NumHidden
    /\ predicted = {}
    /\ requests = <<>>

\* nn.sigmoid(z) on one element.
sigmoid ==
    LET r == _sigmoid_scalar(last.z)
    IN  /\ last.op = "argument"
        /\ last' = [op |-> "sigmoid", z |-> last.z, exp_z |-> r.exp_z,
                    sum |-> r.sum, ret |-> r.ret]
        /\ UNCHANGED <<tensors, num_hidden_nodes, use_file, files, clock, history,
                       predicted, requests>>

\* nn.sigmoid_prime(z) on one element.
sigmoid_prime ==
    /\ last.op = "argument"
    /\ last' = [op |-> "sigmoid_prime", z |-> last.z,
                s |-> _sigmoid_scalar(last.z).ret, ret |-> SigmoidPrime(last.z)]
    /\ UNCHANGED <<tensors, num_hidden_nodes, use_file, files, clock, history,
                   predicted, requests>>

NextSigmoid == sigmoid \/ sigmoid_prime

SpecSigmoid == InitSigmoid /\ [][NextSigmoid]_vars

----------------------------------------------------------------------------
(* A training step in binary64 (ocr.py 118-140), for networks whose tensors  *)
(* are given by one value per row and whose dot products are sums of zeros:  *)
(* a blank image and a theta2 of zeros.  There the result of np.dot does not *)
(* depend on the order in which it adds.                                      *)

\* A number with its sign; zero has none.
Signed(neg, a) == [neg |-> neg /\ ~a.z, abs |-> a]
Whole(n) == Signed(n < 0, FromInt(IF n < 0 THEN -n ELSE n))
Minus(a) == Signed(~a.neg, a.abs)

\* The whole number a stands for.
WholeOf(a) ==
    IF a.abs.z THEN 0
    ELSE (IF a.neg THEN -1 ELSE 1) * IntOf(SubSeq(a.abs.m, 1, a.abs.e + 1))

\* An arithmetic without underflow: a result however small is kept.
Flush_keepsAll(x) == x

\* A result below half the smallest subnormal number is zero.
Flush(x) == IF ~x.z /\ x.e < -1075 THEN Zero ELSE x

\* a + b and a * b of signed numbers.
SAdd(a, b) ==
    IF a.neg = b.neg THEN Signed(a.neg, FloatAdd(a.abs, b.abs))
    ELSE IF FloatLess(a.abs, b.abs) THEN Signed(b.neg, FloatSub(b.abs, a.abs))
    ELSE Signed(a.neg, FloatSub(a.abs, b.abs))
SMul(a, b) == Signed(a.neg # b.neg, Flush(FloatMul(a.abs, b.abs)))

RECURSIVE SumSeq(_)
\* The sum of the numbers of s, the sum of its first half added to the sum of
\* its second.
SumSeq(s) ==
    IF s = <<>> THEN Whole(0)
    ELSE IF Len(s) = 1 THEN s[1]
    ELSE SAdd(SumSeq(SubSeq(s, 1, Len(s) \div 2)),
              SumSeq(SubSeq(s, Len(s) \div 2 + 1, Len(s))))

\* LEARNING_RATE = 0.1
LEARNING_RATE == Signed(FALSE, Binary64(-4, 53687091, 26843546))

\* self.sigmoid and self.sigmoid_prime on an element that is a whole number.
SigmoidOf(a) == Signed(FALSE, _sigmoid_scalar([n |-> WholeOf(a), tens |-> 0]).ret)
SigmoidPrimeOf(a) == Signed(FALSE, SigmoidPrime([n |-> WholeOf(a), tens |-> 0]))

\* A tensor all of whose elements are v, and a tensor whose row i holds
\* vs[i] in every column.
Fill(v) == [k |-> "fill", v |-> v]
Rows(vs) == [k |-> "rows", v |-> vs]

\* The forward propagation, the backpropagation and the four updates of
\* ocr.py 118-140 on weights w, for an image whose pixels all have the value
\* pixel, and label.
NumericStep(w, pixel, label) ==
    LET h == num_hidden_nodes
        sum1 == SAdd(SumSeq([j \in 1..InputSize |-> SMul(w.theta1.v, pixel)]),
                     w.input_layer_bias.v)
        y1 == SigmoidOf(sum1)
        y2 == [i \in 1..OutputSize |->
                  SigmoidOf(SAdd(SumSeq([j \in 1..h |-> SMul(w.theta2.v[i], y1)]),
                                 w.hidden_layer_bias.v[i]))]
        output_errors == [i \in 1..OutputSize |->
                             SAdd(Whole(IF i = label + 1 THEN 1 ELSE 0), Minus(y2[i]))]
        hidden_errors == SMul(SumSeq([i \in 1..OutputSize |->
                                         SMul(w.theta2.v[i], output_errors[i])]),
                              SigmoidPrimeOf(sum1))
    IN  [theta1 |-> Fill(SAdd(w.theta1.v,
                              SMul(LEARNING_RATE, SMul(hidden_errors, pixel)))),
         theta2 |-> Rows([i \in 1..OutputSize |->
                             SAdd(w.theta2.v[i],
                                  SMul(LEARNING_RATE, SMul(output_errors[i], y1)))]),
         hidden_layer_bias |->
             Rows([i \in 1..OutputSize |->
                      SAdd(w.hidden_layer_bias.v[i],
                           SMul(LEARNING_RATE, output_errors[i]))]),
         input_layer_bias |->
             Fill(SAdd(w.input_layer_bias.v, SMul(LEARNING_RATE, hidden_errors)))]

\* The values of the biases of the records the instance has loaded: whole
\* numbers from -1000 to 1000.
InputBiases == {-1000, -500, 0, 40}
LabelBiases == {0, 36, 37, 1000}
OtherBiases == {-1000, -500, -40, 0}

\* An instance that has loaded a record whose weights are zero, whose input
\* bias is the same in every row and whose hidden bias has one value in the
\* row of digit 0 and another in the rows of the other digits.
InitNumeric ==
    /\ theta1 = Fill(Whole(0))
    /\ theta2 = Rows([i \in 1..OutputSize |-> Whole(0)])
    /\ input_layer_bias \in {Fill(Whole(b)) : b \in InputBiases}
    /\ hidden_layer_bias \in
          {Rows([i \in 1..OutputSize |-> Whole(IF i = 1 THEN a ELSE b)]) :
              a \in LabelBiases, b \in OtherBiases}
    /\ use_file = TRUE
    /\ record = <<>>
    /\ backups = {}
    /\ clock = 0
    /\ last = [op |-> "load", ret |-> "None"]
    /\ saveRun = <<>>
    /\ created = {}
    /\ saved = <<>>
    /\ submitted = 0
    /\ num_hidden_nodes = NumHidden
    /\ predicted = {}
    /\ requests = <<>>

\* train([{"y0": [0] * 400, "label": label}]): a blank image.
train_blank(label) ==
    LET batch == <<[y0 |-> Pixels(InputSize, 0), label |-> Number(10 * label)]>>
    IN  /\ last.op = "load"
        /\ TrainResult(Weights, batch).ret = "None"
        /\ SetWeights(NumericStep(Weights, Whole(0), label))
        /\ submitted' = submitted + 1
        /\ last' = [op |-> "train", batch |-> batch, pre |-> Weights,
                    ret |-> "None", kind |-> "none", idx |-> -1]
        /\ predicted' = {}
        /\ UNCHANGED <<num_hidden_nodes, use_file, files, clock, saveRun, created,
                       saved, requests>>

NextNumeric == \E label \in {0, OutputSize - 1} : train_blank(label)

SpecNumeric == InitNumeric /\ [][NextNumeric]_vars

----------------------------------------------------------------------------
(* The hyperparameter sweep (neural_network_design.py) *)

\* test_runs of model_test.
TestRuns == 10

\* What a test set comes to for one network: for each test index, whether
\* data_labels[i] == nn.predict(data_matrix[i]).  predict is a function of the
\* weights and the pixel vector and model_test assigns no tensor, so every run
\* of model_test meets the same outcomes.
HitSets == UNION {[1..n -> BOOLEAN] : n \in 0..MaxTests}

RECURSIVE SumRuns(_, _)
\* avg_sum after k runs that each add the fraction x to it, from avg_sum = 0.
SumRuns(x, k) == IF k = 0 THEN Zero ELSE FloatAdd(SumRuns(x, k - 1), x)

\* A model_test that returns the sum of the runs' fractions.
ModelTest_returnsSum(hits) ==
    IF hits = <<>> THEN Zero
    ELSE LET correct_guess_count == Cardinality({i \in 1..Len(hits) : hits[i]})
         IN  SumRuns(FloatDivInt(FromInt(correct_guess_count), Len(hits)), TestRuns)

\* model_test(data_matrix, data_labels, test_indices, nn) on a test set with
\* outcomes hits: 0.0 for no test indices; otherwise the mean over test_runs
\* runs of correct_guess_count / float(len(test_indices)).
ModelTest(hits) ==
    IF hits = <<>> THEN Zero
    ELSE LET correct_guess_count == Cardinality({i \in 1..Len(hits) : hits[i]})
         IN  FloatDivInt(
                 SumRuns(FloatDivInt(FromInt(correct_guess_count), Len(hits)),
                         TestRuns),
                 TestRuns)

RECURSIVE PyRange_stopsEarly(_, _, _)
\* A range that leaves out the value just below stop.
PyRange_stopsEarly(start, stop, step) ==
    IF start >= stop - 1 THEN <<>>
    ELSE <<start>> \o PyRange_stopsEarly(start + step, stop, step)

RECURSIVE PyRange(_, _, _)
\* range(start, stop, step) for step >= 1, as a sequence.
PyRange(start, stop, step) ==
    IF start >= stop THEN <<>>
    ELSE <<start>> \o PyRange(start + step, stop, step)

\* The test set of a sweep, and the accuracy model_test returns for a network
\* that predicts c of its samples correctly.
test_indices == <<1, 2>>
Accuracy == [c \in 0..Len(test_indices) |->
                ModelTest([i \in 1..Len(test_indices) |-> i <= c])]

\* An insertion that puts an entry before the entries of equal accuracy.
Insert_beforeEqual(sorted, x) ==
    LET p == Cardinality({i \in 1..Len(sorted) : FloatLess(x[2], sorted[i][2])})
    IN  SubSeq(sorted, 1, p) \o <<x>> \o SubSeq(sorted, p + 1, Len(sorted))

\* One step of the stable descending sort: entry x goes behind every entry
\* whose accuracy is not below its own.
Insert(sorted, x) ==
    LET p == Cardinality({i \in 1..Len(sorted) : ~FloatLess(sorted[i][2], x[2])})
    IN  SubSeq(sorted, 1, p) \o <<x>> \o SubSeq(sorted, p + 1, Len(sorted))

RECURSIVE SortByAccuracy(_)
\* results.sort(key=lambda x: x[1], reverse=True): descending by accuracy,
\* entries of equal accuracy in the order they were in.
SortByAccuracy(results) ==
    IF results = <<>> THEN <<>>
    ELSE Insert(SortByAccuracy(SubSeq(results, 1, Len(results) - 1)),
                results[Len(results)])

\* epochs of find_optimal_hidden_nodes, and the training set of a sweep.
epochs == 3
train_indices == <<1>>

\* OCRNeuralNetwork(h, data_matrix, data_labels, training_indices, use) built
\* while the path holds rec, as an object of its own: the weights it draws, the
\* weights it ends with (the record's, or one epoch on its draw), and whether
\* its save() writes the record.
Built(h, use, rec, training_indices, id) ==
    LET init == RandomInit(h, id)
        loads == use /\ rec # <<>>
    IN  [num_hidden_nodes |-> h, use_file |-> use, init |-> init,
         w |-> IF loads THEN FromJson(rec[1].content)
               ELSE _train(init, data_matrix, data_labels, training_indices),
         writes |-> use /\ ~loads]

\* A sweep that builds its networks with the constructor's default use_file.
SweepInstance_defaultUseFile(i, rec) ==
    Built(i, TRUE, rec, train_indices, -(MaxClock + 1 + i))

\* nn = OCRNeuralNetwork(i, data_matrix, data_labels, train_indices, False).
\* Its draw differs from every draw a constructor of the shared instance makes.
SweepInstance(i, rec) ==
    Built(i, FALSE, rec, train_indices, -(MaxClock + 1 + i))

RECURSIVE Epochs(_, _)
\* for epoch in range(n): nn._train(data_matrix, data_labels, train_indices)
Epochs(w, n) ==
    IF n = 0 THEN w
    ELSE Epochs(_train(w, data_matrix, data_labels, train_indices), n - 1)

RECURSIVE SweepNetworks(_, _, _)
\* The body of the sweep's loop for the node counts nodes, on a path that
\* holds rec at time now: the networks as they are when model_test is given
\* them, and the record the loop leaves.
SweepNetworks(nodes, rec, now) ==
    IF nodes = <<>> THEN [nets |-> <<>>, rec |-> rec]
    ELSE LET nn == SweepInstance(Head(nodes), rec)
             left == IF nn.writes
                     THEN <<[mtime |-> now, content |-> ToJson(nn.w)]>>
                     ELSE rec
             rest == SweepNetworks(Tail(nodes), left, now)
         IN  [nets |-> <<[nn EXCEPT !.w = Epochs(nn.w, epochs - 1)]>> \o rest.nets,
              rec |-> rest.rec]

\* find_optimal_hidden_nodes(..., min_nodes, max_nodes, step), where the
\* network built and trained with i hidden nodes predicts correct[i] of the
\* test samples: the (i, performance) tuples, sorted.
FindOptimalHiddenNodes(min_nodes, max_nodes, step, correct) ==
    LET nodes == PyRange(min_nodes, max_nodes, step)
    IN  SortByAccuracy([k \in 1..Len(nodes) |->
                           <<nodes[k], Accuracy[correct[nodes[k]]]>>])

\* The arguments of a sweep: min_nodes >= 1 and step >= 1 as the /optimize
\* handler requires, any max_nodes, and an outcome for each network built.
SweepInputs ==
    UNION {
        {[op |-> "sweep_input", min_nodes |-> a, max_nodes |-> b, step |-> st,
          correct |-> f] :
            f \in [{n \in a..(b - 1) : (n - a) % st = 0} -> 0..Len(test_indices)]} :
        a \in 1..MaxNodes, b \in 1..(MaxNodes + 2), st \in 1..MaxStep}

\* A network built without persistence, and the arguments of the call to come:
\* a test set for model_test or the arguments of a sweep.
InitDesign ==
    /\ theta1 = InitValue("theta1", 0)
    /\ theta2 = InitValue("theta2", 0)
    /\ input_layer_bias = InitValue("input_layer_bias", 0)
    /\ hidden_layer_bias = InitValue("hidden_layer_bias", 0)
    /\ use_file = FALSE
    /\ record = <<>>
    /\ backups = {}
    /\ clock = 0
    /\ last \in {[op |-> "test_set", hits |-> h] : h \in HitSets} \cup SweepInputs
    /\ saveRun = <<>>
    /\ created = {}
    /\ saved = <<>>
    /\ submitted = 0
    /\ num_hidden_nodes = NumHidden
    /\ predicted = {}
    /\ requests = <<>>

\* model_test(data_matrix, data_labels, test_indices, nn)
model_test ==
    /\ last.op = "test_set"
    /\ last' = [op |-> "model_test", hits |-> last.hits, ret |-> ModelTest(last.hits)]
    /\ UNCHANGED <<tensors, num_hidden_nodes, use_file, files, clock, history,
                   predicted, requests>>

\* find_optimal_hidden_nodes(data_matrix, data_labels, train_indices,
\* test_indices, min_nodes, max_nodes, step): the networks it builds are its
\* own, built with use_file False.
find_optimal_hidden_nodes ==
    LET loop == SweepNetworks(PyRange(last.min_nodes, last.max_nodes, last.step),
                              record, clock)
    IN  /\ last.op = "sweep_input"
        /\ last' = [op |-> "sweep", min_nodes |-> last.min_nodes,
                    max_nodes |-> last.max_nodes, step |-> last.step,
                    correct |-> last.correct, networks |-> loop.nets,
                    ret |-> FindOptimalHiddenNodes(last.min_nodes, last.max_nodes,
                                                   last.step, last.correct)]
        /\ record' = loop.rec
        /\ UNCHANGED <<tensors, num_hidden_nodes, use_file, backups, clock, history,
                       predicted, requests>>

\* The bodies of POST /optimize: minNodes, maxNodes and step, with the outcome
\* of each network the sweep would build from them.
OptimizePayloads ==
    UNION {
        {[minNodes |-> a, maxNodes |-> b, step |-> st, correct |-> f] :
            f \in [{n \in a..(b - 1) : st > 0 /\ (n - a) % st = 0} ->
                      0..Len(test_indices)]} :
        a \in 0..2, b \in 2..3, st \in 0..1}

\* optimize_network() on a body with non-empty, well-formed trainingData and
\* testData: the parameters are validated, the sweep runs and its results are
\* returned.
optimize_network(payload) ==
    IF payload.minNodes < 1 \/ payload.maxNodes <= payload.minNodes \/ payload.step < 1
    THEN /\ last' = [op |-> "optimize", payload |-> payload, status |-> 400]
         /\ UNCHANGED <<tensors, num_hidden_nodes, use_file, files, clock, history,
                        predicted, requests>>
    ELSE LET loop == SweepNetworks(
                         PyRange(payload.minNodes, payload.maxNodes, payload.step),
                         record, clock)
         IN  /\ last' = [op |-> "sweep", min_nodes |-> payload.minNodes,
                         max_nodes |-> payload.maxNodes, step |-> payload.step,
                         correct |-> payload.correct, networks |-> loop.nets,
                         ret |-> FindOptimalHiddenNodes(payload.minNodes,
                                     payload.maxNodes, payload.step, payload.correct),
                         status |-> 200]
             /\ record' = loop.rec
             /\ UNCHANGED <<tensors, num_hidden_nodes, use_file, backups, clock,
                            history, predicted, requests>>

\* Sweeps requested of a server whose network is trained and saved between
\* them.
NextOptimize ==
    \/ SetUseFile(TRUE)
    \/ train(<<[y0 |-> Pixels(InputSize, 1), label |-> Number(0)]>>)
    \/ clock < MaxLife /\ save(MaxBackups)
    \/ \E payload \in OptimizePayloads : optimize_network(payload)

SpecOptimize == Init /\ [][NextOptimize]_vars

NextDesign == model_test \/ find_optimal_hidden_nodes

SpecDesign == InitDesign /\ [][NextDesign]_vars

----------------------------------------------------------------------------
(* The HTTP server (app.py): one network, built when the module is loaded,    *)
(* that every request handler works on.                                       *)

\* The files save(max_backups) leaves at time ts with weights w, on a path
\* that holds record rec and backups bs.
SaveFiles(w, rec, bs, ts, max_backups) ==
    [record |-> <<[mtime |-> ts, content |-> ToJson(w)]>>,
     backups |-> IF rec # <<>>
                 THEN _cleanup_old_backups(BackupCopy(bs, rec[1], ts), max_backups)
                 ELSE bs]

\* A validation of the handler that takes any pixel value.
ValidateSample_skipsPixels(data) ==
    IF "y0" \notin DOMAIN data \/ "label" \notin DOMAIN data THEN "missing"
    ELSE IF data.y0.len # InputSize THEN "length"
    ELSE IF \/ data.label.kind # "num"
            \/ data.label.tenths % 10 # 0
            \/ data.label.tenths < 0
            \/ data.label.tenths > 90
    THEN "label"
    ELSE "ok"

\* The handler's checks of one sample of trainArray, in the order it makes
\* them: the fields, len(data["y0"]), the label, float() of every pixel.
ValidateSample(data) ==
    IF "y0" \notin DOMAIN data \/ "label" \notin DOMAIN data THEN "missing"
    ELSE IF data.y0.len # InputSize THEN "length"
    ELSE IF \/ data.label.kind # "num"
            \/ data.label.tenths % 10 # 0
            \/ data.label.tenths < 0
            \/ data.label.tenths > 90
    THEN "label"
    ELSE IF ~data.y0.numeric THEN "pixel"
    ELSE "ok"

RECURSIVE ValidateArray(_, _)
\* for i, data in enumerate(train_array), from position i on: the first sample
\* that fails a check is answered with 400 and its position.
ValidateArray(train_array, i) ==
    IF i >= Len(train_array) THEN [status |-> 200, kind |-> "ok", sample |-> -1]
    ELSE LET v == ValidateSample(train_array[i + 1])
         IN  IF v # "ok" THEN [status |-> 400, kind |-> v, sample |-> i]
             ELSE ValidateArray(train_array, i + 1)

\* What handle_request answers to payload and what it leaves, on weights w and
\* a path holding rec and bs at time now: the status, the weights, the files,
\* whether nn.train and nn.predict were called and whether save wrote.
Response(payload, w, rec, bs, now, use) ==
    LET keep == [status |-> 400, kind |-> "request", sample |-> -1, w |-> w,
                 record |-> rec, backups |-> bs, trained |-> FALSE,
                 wrote |-> FALSE, out |-> <<>>]
    IN  IF payload = <<>> THEN keep
        ELSE IF "train" \in DOMAIN payload /\ payload.train
        THEN IF "trainArray" \notin DOMAIN payload \/ payload.trainArray = <<>>
             THEN keep
             ELSE LET v == ValidateArray(payload.trainArray, 0)
                      r == TrainResult(w, payload.trainArray)
                      f == SaveFiles(r.w, rec, bs, now + 1, DefaultMaxBackups)
                  IN  IF v.status = 400
                      THEN [keep EXCEPT !.kind = v.kind, !.sample = v.sample]
                      ELSE IF r.ret # "None"
                      THEN [keep EXCEPT !.status = 500, !.kind = r.kind,
                                        !.sample = r.idx, !.w = r.w,
                                        !.trained = TRUE]
                      ELSE [keep EXCEPT !.status = 200, !.kind = "ok", !.w = r.w,
                                        !.trained = TRUE, !.wrote = use,
                                        !.record = IF use THEN f.record ELSE rec,
                                        !.backups = IF use THEN f.backups ELSE bs]
        ELSE IF "predict" \in DOMAIN payload /\ payload.predict
        THEN IF "image" \notin DOMAIN payload THEN keep
             ELSE IF "text" \in DOMAIN payload.image THEN [keep EXCEPT !.kind = "array"]
             ELSE IF payload.image.len # InputSize THEN [keep EXCEPT !.kind = "length"]
             ELSE IF ~payload.image.numeric THEN [keep EXCEPT !.kind = "pixel"]
             ELSE LET r == Prediction(w, payload.image)
                  IN  [keep EXCEPT !.status = IF r.ret = "label" THEN 200 ELSE 500,
                                   !.kind = "ok", !.out = <<r>>]
        ELSE keep

\* handle_request() on the body payload, run from its first statement to its
\* return with no other request in between.
handle_request(payload) ==
    LET r == Response(payload, Weights, record, backups, clock, use_file)
        n == IF r.trained THEN Len(payload.trainArray) ELSE 0
    IN  /\ submitted + n <= MaxSamples
        /\ r.wrote => clock < MaxClock
        /\ SetWeights(r.w)
        /\ record' = r.record
        /\ backups' = r.backups
        /\ clock' = IF r.wrote THEN clock + 1 ELSE clock
        /\ last' = [op |-> "http", payload |-> payload, status |-> r.status,
                    kind |-> r.kind, sample |-> r.sample]
        /\ submitted' = submitted + n
        /\ saveRun' = IF ~r.wrote THEN saveRun
                      ELSE IF saveRun # <<>> /\ saveRun[1].k \in {-1, DefaultMaxBackups}
                      THEN <<[k |-> DefaultMaxBackups, n |-> saveRun[1].n + 1]>>
                      ELSE <<>>
        /\ created' = IF r.wrote /\ record # <<>> THEN created \cup {clock'} ELSE created
        /\ saved' = IF r.wrote THEN <<[w |-> r.w, dirty |-> FALSE]>>
                    ELSE IF saved = <<>> \/ r.w = Weights THEN saved
                    ELSE <<[saved[1] EXCEPT !.dirty = TRUE]>>
        /\ predicted' = IF r.trained THEN {}
                        ELSE IF r.out # <<>> THEN predicted \cup {<<payload.image, r.out[1]>>}
                        ELSE predicted
        /\ UNCHANGED <<num_hidden_nodes, use_file, requests>>

\* The samples of the train requests: one that is well-formed, one with a
\* label that is not an integer, one too short, one with pixels that are not
\* numbers, one without a label, and one whose y0 is a string of 400 digits.
ValidSample == [y0 |-> Pixels(InputSize, 1), label |-> Number(0)]
ShortSample == [y0 |-> Pixels(100, 1), label |-> Number(30)]
RequestSamples ==
    {ValidSample, ShortSample,
     [y0 |-> Pixels(InputSize, 1), label |-> Number(37)],
     [y0 |-> NotNumbers(InputSize), label |-> Number(30)],
     [y0 |-> Pixels(InputSize, 1)],
     [y0 |-> Digits(InputSize), label |-> Number(0)]}

\* The request bodies: train requests of up to two samples, predict requests,
\* and bodies that are neither.
Payloads ==
    {<<>>, [train |-> FALSE], [train |-> TRUE], [predict |-> TRUE],
     [train |-> TRUE, trainArray |-> <<>>]} \cup
    {[train |-> TRUE, trainArray |-> <<a>>] : a \in RequestSamples} \cup
    {[train |-> TRUE, trainArray |-> <<a, b>>] :
        a \in {ValidSample, ShortSample}, b \in RequestSamples} \cup
    {[predict |-> TRUE, image |-> i] : i \in PredictInputs \cup {Digits(InputSize)}}

\* nn = OCRNeuralNetwork(20, data_matrix, data_labels, training_indices,
\* use_file=True), as the module builds it when the server starts.
StartServer == Construct(20, TRUE, <<1>>)

\* The server started, and restarted, on the shared path, handling one request
\* at a time.
NextServer ==
    \/ clock < MaxLife /\ StartServer
    \/ last.op # "init" /\ \E payload \in Payloads : handle_request(payload)

SpecServer == Init /\ [][NextServer]_vars

----------------------------------------------------------------------------
(* The HTTP server under its threaded development server (app.run): every     *)
(* request is handled by a thread of its own, on the one network of the       *)
(* module; neither app.py nor ocr.py takes a lock.  A handler's steps are the *)
(* statements between which another thread can run.                           *)

\* The threads that handle requests at the same time.
Threads == {1, 2}

\* The order of the four updates of a training step.
UpdateOrder == <<"theta1", "theta2", "hidden_layer_bias", "input_layer_bias">>

\* self.<f> += rate * delta, where delta was computed from the weights pre the
\* thread read in its forward pass and base is the tensor at the time of the
\* addition: the step's own update when nothing was added in between.
Added(base, f, pre, x, label) ==
    IF base = pre[f] THEN Backprop(pre, x, label)[f]
    ELSE [k |-> "add", f |-> f, base |-> base, pre |-> pre, x |-> x, label |-> label]

\* A thread with no request.
Idle == [pc |-> "idle"]

\* The record and the backups an earlier run of the server left: a record and
\* as many backups as save keeps.
OldBackups ==
    {[ts |-> -i, mtime |-> -i, content |-> ToJson(RandomInit(20, -i))] :
        i \in 1..DefaultMaxBackups}

\* The server started on a path with a record, which the constructor loaded,
\* and with no backups or five.
InitThreads ==
    /\ SetWeightsInit(RandomInit(20, 0))
    /\ use_file = TRUE
    /\ record = <<[mtime |-> 0, content |-> ToJson(RandomInit(20, 0))]>>
    /\ backups \in {{}, OldBackups}
    /\ clock = 0
    /\ last = [op |-> "start"]
    /\ saveRun = <<>>
    /\ created = {}
    /\ saved = <<>>
    /\ submitted = 0
    /\ num_hidden_nodes = 20
    /\ predicted = {}
    /\ requests = [t \in Threads |-> Idle]

\* The request bodies the threads are given: two train requests of one sample
\* each, one whose sample is too short, one whose y0 is a string of digits,
\* and a predict request.
OtherSample == [y0 |-> Pixels(InputSize, 2), label |-> Number(30)]
ThreadPayloads ==
    {[train |-> TRUE, trainArray |-> <<a>>] :
        a \in {ValidSample, OtherSample, ShortSample,
               [y0 |-> Digits(InputSize), label |-> Number(0)]}} \cup
    {[predict |-> TRUE, image |-> Pixels(InputSize, 1)]}

\* What a step of thread t leaves of the variables it does not name.
Step(t, r) ==
    /\ requests' = [requests EXCEPT ![t] = r]
    /\ last' = [op |-> "thread", thread |-> t, at |-> requests[t].pc]
    /\ UNCHANGED <<num_hidden_nodes, use_file, saveRun, saved, predicted>>

\* Thread t takes a request and runs the handler's validation, which reads
\* nothing shared: lines 25-90 and 114-135.
Receive(t, payload) ==
    LET r == Response(payload, Weights, record, backups, clock, use_file)
        n == IF r.trained THEN Len(payload.trainArray) ELSE 0
    IN  /\ requests[t] = Idle
        /\ submitted + n <= MaxSamples
        /\ submitted' = submitted + n
        /\ Step(t, IF r.status = 400
                   THEN [pc |-> "done", payload |-> payload, status |-> 400,
                         kind |-> r.kind]
                   ELSE [pc |-> IF r.trained THEN "forward" ELSE "predict",
                         payload |-> payload, idx |-> 0])
        /\ UNCHANGED <<tensors, files, clock, created>>

\* train's loop body up to the updates, for sample idx: the validation, then
\* the forward propagation and the errors, read from the tensors as they are
\* now (ocr.py 100-134).  A sample that fails ends the request with 500.
Forward(t) ==
    LET q == requests[t]
        r == TrainSample(Weights, q.payload.trainArray[q.idx + 1])
    IN  /\ q.pc = "forward"
        /\ Step(t, IF r.err.ret # "None"
                   THEN [pc |-> "done", payload |-> q.payload, status |-> 500,
                         kind |-> r.err.kind]
                   ELSE [pc |-> "theta1", payload |-> q.payload, idx |-> q.idx,
                         pre |-> Weights])
        /\ UNCHANGED <<tensors, files, clock, created, submitted>>

\* One of the four additions of ocr.py 137-140, on the tensor as it is now.
Update(t) ==
    LET q == requests[t]
        data == q.payload.trainArray[q.idx + 1]
        n == CHOOSE i \in 1..4 : UpdateOrder[i] = q.pc
        next == IF n < 4 THEN [q EXCEPT !.pc = UpdateOrder[n + 1]]
                ELSE IF q.idx + 1 < Len(q.payload.trainArray)
                THEN [pc |-> "forward", payload |-> q.payload, idx |-> q.idx + 1]
                ELSE [pc |-> "save", payload |-> q.payload]
    IN  /\ q.pc \in {UpdateOrder[i] : i \in 1..4}
        /\ SetWeights([Weights EXCEPT ![q.pc] =
                          Added(Weights[q.pc], q.pc, q.pre, data.y0.px,
                                PyInt(data.label.tenths))])
        /\ requests' = [requests EXCEPT ![t] = next]
        /\ last' = [op |-> "thread", thread |-> t, at |-> q.pc]
        /\ predicted' = {}
        /\ UNCHANGED <<num_hidden_nodes, use_file, files, clock, saveRun, created,
                       saved, submitted>>

\* save up to the copy of the backup: os.path.exists, the timestamp and
\* shutil.copy2 (ocr.py 195-199).
Backup(t) ==
    LET q == requests[t]
    IN  /\ q.pc = "save"
        /\ clock < MaxClock
        /\ clock' = clock + 1
        /\ backups' = IF record = <<>> THEN backups
                      ELSE BackupCopy(backups, record[1], clock')
        /\ created' = IF record = <<>> THEN created ELSE created \cup {clock'}
        /\ Step(t, [pc |-> IF record = <<>> THEN "dump" ELSE "listdir",
                    payload |-> q.payload])
        /\ UNCHANGED <<tensors, record, submitted>>

\* _cleanup_old_backups up to its loop: the listing, sorted by modification
\* time, of which all but the newest max_backups are to be removed
\* (ocr.py 236-245).
ListDir(t) ==
    LET q == requests[t]
        sorted == SortedByMtime(backups)
        kept == PopOldest(sorted, DefaultMaxBackups)
    IN  /\ q.pc = "listdir"
        /\ Step(t, [pc |-> "remove", payload |-> q.payload,
                    old |-> SubSeq(sorted, 1, Len(sorted) - Len(kept))])
        /\ UNCHANGED <<tensors, files, clock, created, submitted>>

\* One pass of the loop of ocr.py 247-249: os.remove of the oldest backup
\* listed, which raises when the file is no longer there; the error reaches
\* the handler, which answers 500.
Remove(t) ==
    LET q == requests[t]
    IN  /\ q.pc = "remove"
        /\ IF q.old = <<>>
           THEN /\ Step(t, [pc |-> "dump", payload |-> q.payload])
                /\ UNCHANGED backups
           ELSE IF \E b \in backups : b.ts = Head(q.old).ts
           THEN /\ Step(t, [q EXCEPT !.old = Tail(q.old)])
                /\ backups' = {b \in backups : b.ts # Head(q.old).ts}
           ELSE /\ Step(t, [pc |-> "done", payload |-> q.payload, status |-> 500,
                            kind |-> "FileNotFoundError"])
                /\ UNCHANGED backups
        /\ UNCHANGED <<tensors, record, clock, created, submitted>>

\* The dict save builds from the four tensors as they are now (ocr.py
\* 203-219), and whether they are those of a point between training steps:
\* no other thread has made some and not all of its step's four additions.
Dump(t) ==
    LET q == requests[t]
    IN  /\ q.pc = "dump"
        /\ Step(t, [pc |-> "open", payload |-> q.payload,
                    json_neural_network |-> ToJson(Weights),
                    between |-> \A u \in Threads \ {t} :
                                   requests[u].pc \notin
                                       {UpdateOrder[i] : i \in 2..4}])
        /\ UNCHANGED <<tensors, files, clock, created, submitted>>

\* open(NN_FILE_PATH, "w") empties the record (ocr.py 221).
Open(t) ==
    LET q == requests[t]
    IN  /\ q.pc = "open"
        /\ record' = <<[mtime |-> clock, content |-> Truncated]>>
        /\ Step(t, [q EXCEPT !.pc = "write"])
        /\ UNCHANGED <<tensors, backups, clock, created, submitted>>

\* json.dump writes the dict and the file is closed (ocr.py 222); the handler
\* answers 200.
Write(t) ==
    LET q == requests[t]
    IN  /\ q.pc = "write"
        /\ record' = <<[mtime |-> clock, content |-> q.json_neural_network]>>
        /\ Step(t, [pc |-> "done", payload |-> q.payload, status |-> 200,
                    kind |-> "ok", between |-> q.between])
        /\ UNCHANGED <<tensors, backups, clock, created, submitted>>

\* nn.predict(image) on the tensors as they are now (app.py 137-141).
Predict(t) ==
    LET q == requests[t]
        r == Prediction(Weights, q.payload.image)
    IN  /\ q.pc = "predict"
        /\ Step(t, [pc |-> "done", payload |-> q.payload,
                    status |-> IF r.ret = "label" THEN 200 ELSE 500,
                    kind |-> "ok", out |-> r, w |-> Weights])
        /\ UNCHANGED <<tensors, files, clock, created, submitted>>

\* Each thread handles one request; the threads run in any order.
NextThreads ==
    \/ \E t \in Threads, payload \in ThreadPayloads : Receive(t, payload)
    \/ \E t \in Threads : Forward(t)
    \/ \E t \in Threads : Update(t)
    \/ \E t \in Threads : Backup(t)
    \/ \E t \in Threads : ListDir(t)
    \/ \E t \in Threads : Remove(t)
    \/ \E t \in Threads : Dump(t)
    \/ \E t \in Threads : Open(t)
    \/ \E t \in Threads : Write(t)
    \/ \E t \in Threads : Predict(t)

SpecThreads == InitThreads /\ [][NextThreads]_vars

----------------------------------------------------------------------------
(* Properties of save and load, checked under Spec (C17 under               *)
(* SpecSaveFailure, where file I/O can fail)                                *)

\* C15: with persistence disabled, in every state, save creates or modifies no
\* record and no backup, and load leaves all four tensors unchanged; neither
\* raises.
C15_DisabledPersistenceIsNoOp ==
    [][~use_file =>
          /\ last'.op = "save" => (UNCHANGED files /\ last'.ret = "None")
          /\ last'.op = "load" => (UNCHANGED tensors /\ last'.ret = "None")]_vars

\* A load with persistence disabled while the path holds a record of other
\* tensors and backups exist.
C15_Witness ==
    /\ ~use_file
    /\ last.op = "load"
    /\ record # <<>> /\ backups # {}
    /\ Weights # FromJson(record[1].content)

\* C16: with persistence enabled, a save that finds no record creates no
\* backup; a save that finds a record first makes exactly one new backup, under
\* a name no existing backup has, holding the record as it was before the save
\* (the backup is there after the save whenever max_backups exceeds the number
\* of backups found), and then overwrites the record, which holds exactly the
\* current four tensors under theta1, theta2, b1, b2 and nothing else.
C16_BackupThenOverwrite ==
    [][(use_file /\ last'.op = "save" /\ last'.ret = "None") =>
          /\ record' # <<>>
          /\ record'[1].content = ToJson(Weights)
          /\ DOMAIN record'[1].content = {"theta1", "theta2", "b1", "b2"}
          /\ IF record = <<>>
             THEN backups' = backups /\ created' = created
             ELSE \E ts \in created' :
                     /\ ts \notin created /\ ts \notin Names(backups)
                     /\ created' = created \cup {ts}
                     /\ \A b \in backups' \ backups :
                           b.ts = ts /\ b.content = record[1].content
                     /\ last'.arg > Cardinality(backups) =>
                           \E b \in backups' : b.ts = ts]_vars

\* A save that found a record of other tensors than the ones in memory, with a
\* backup already there: the backup it made holds the old record.
C16_Witness ==
    /\ use_file /\ last.op = "save" /\ last.ret = "None"
    /\ record # <<>> /\ record[1].mtime = clock
    /\ Cardinality(backups) >= 2
    /\ \E b \in backups : b.ts = clock /\ b.content # record[1].content

\* C17: a save that fails with an I/O error, at the backup, the pruning or the
\* write, leaves the four tensors in memory unchanged.
C17_FailedSaveKeepsWeights ==
    [][(last'.op = "save" /\ last'.ret = "OSError") => UNCHANGED tensors]_vars

\* A save of trained weights that failed while writing, over a record of other
\* tensors: the record is cut short, the weights are still the trained ones.
C17_Witness ==
    /\ last.op = "save" /\ last.ret = "OSError" /\ last.at = "write"
    /\ record # <<>> /\ record[1].content = Truncated
    /\ \E b \in backups : b.content # Truncated /\ FromJson(b.content) # Weights
    /\ Weights.theta1.k = "upd"

\* C29: _load is all-or-nothing.  When it fails, because the record is
\* missing or malformed (a record that lacks one of the fields theta1, theta2,
\* b1, b2 included), all four tensors keep their values; when it succeeds with
\* persistence enabled, all four are the record's.
C29_LoadIsAllOrNothing ==
    [][last'.op = "load" =>
          IF last'.ret = "None"
          THEN use_file => Weights' = FromJson(record[1].content)
          ELSE UNCHANGED tensors]_vars

----------------------------------------------------------------------------
(* Properties of predict, checked under SpecPredict *)

\* C11: predict has no side effect and is deterministic: whether it returns a
\* label or fails validation, it leaves the four tensors, the record and the
\* backups unchanged, and the predict calls made on one pixel vector with no
\* training, load or restore between them all have the same outcome.
C11_PredictIsPure ==
    [][last'.op = "predict" =>
          /\ UNCHANGED <<tensors, files>>
          /\ \A p \in predicted', q \in predicted' :
                p[1] = q[1] => p[2] = q[2]]_vars

\* A prediction on trained weights, with a record and a backup on disk, after a
\* predict call that failed validation on the same weights.
C11_Witness ==
    /\ last.op = "predict" /\ last.out.ret = "label"
    /\ Weights.theta1.k = "upd"
    /\ record # <<>> /\ backups # {}
    /\ \E q \in predicted : q[2].ret = "ValueError"

\* C12: for every well-formed input, predict returns an integer in 0..9, the
\* lowest index at which the 10 output activations attain their maximum: no
\* activation is larger, and every activation at a lower index is smaller.
C12_LowestIndexOfMaximum ==
    last.op = "predict_return" =>
        /\ last.ret \in 0..9
        /\ \A i \in 1..OutputSize : last.results[i] <= last.results[last.ret + 1]
        /\ \A i \in 1..last.ret : last.results[i] < last.results[last.ret + 1]

\* The maximum is attained at three indices, none of them the first or the
\* last: the label is the lowest of the three.
C12_Witness ==
    /\ last.op = "predict_return"
    /\ last.results[1] < last.results[3]
    /\ last.results[OutputSize] < last.results[3]
    /\ {i \in 1..OutputSize : last.results[i] = PyMax(last.results)} = {3, 5, 8}
    /\ last.ret = 2

----------------------------------------------------------------------------
(* Properties of construction, checked under SpecConstruct and SpecInstance *)

RECURSIVE EpochFrom(_, _, _)
\* w is what one pass over training_indices, in order, leaves of the weights
\* init: its last step is a whole update on the sample at the last index, taken
\* from weights that the pass over the indices before it leaves of init.
EpochFrom(w, init, training_indices) ==
    IF training_indices = <<>> THEN w = init
    ELSE LET n == Len(training_indices)
             data_index == training_indices[n]
         IN  /\ w.theta1.k = "upd"
             /\ \A f \in Fields :
                   w[f] = [k |-> "upd", f |-> f, pre |-> w.theta1.pre,
                           x |-> data_matrix[data_index],
                           label |-> data_labels[data_index]]
             /\ EpochFrom(w.theta1.pre, init, SubSeq(training_indices, 1, n - 1))

\* C13: after the random initialisation, construction takes one of two paths.
\* With persistence enabled and a record on the path, the tensors are those of
\* the record, nothing is trained and nothing is saved: record and backups are
\* unchanged.  Otherwise exactly one epoch over the supplied indices runs on the
\* drawn weights and save is called once: it writes the trained tensors as the
\* record when persistence is enabled, and nothing when it is disabled.
C13_ConstructionPaths ==
    [][last'.op = "construct" =>
          IF last'.use /\ record # <<>>
          THEN /\ Weights' = FromJson(record[1].content)
               /\ UNCHANGED files
          ELSE /\ EpochFrom(Weights', last'.init, last'.indices)
               /\ IF last'.use
                  THEN /\ record' = <<[mtime |-> clock', content |-> ToJson(Weights')]>>
                       /\ backups' = backups
                  ELSE UNCHANGED files]_vars

\* An instance built with persistence enabled on a path whose record holds
\* trained weights: it carries the record's tensors, not the ones it drew.
C13_Witness ==
    /\ last.op = "construct" /\ last.use /\ last.path = "load"
    /\ last.indices # <<>>
    /\ record # <<>>
    /\ Weights = FromJson(record[1].content)
    /\ Weights.theta1.k = "upd"
    /\ Weights # last.init

\* C14: on an instance built with hidden-node count H, after construction (a
\* construction that loads the record on the shared path included) and after
\* every train, predict, save, load and restore_from_backup, theta1 is H x 400,
\* the input-layer bias has length H, theta2 is 10 x H and the hidden-layer bias
\* has length 10, with H the instance's num_hidden_nodes.
C14_ShapeInvariant ==
    \A f \in Fields : TensorShape(Weights[f]) = Shape(f, num_hidden_nodes)

\* C28: immediately after a construction with persistence enabled, a record
\* exists at the path and its four tensors are the tensors the instance holds
\* in memory, whether it loaded an existing record or trained and saved.
C28_ConstructionLeavesRecordInSync ==
    (last.op = "construct" /\ last.use) =>
        /\ record # <<>>
        /\ DOMAIN record[1].content = {"theta1", "theta2", "b1", "b2"}
        /\ FromJson(record[1].content) = Weights

\* An instance of 20 hidden nodes built with persistence enabled on a path
\* without a record: it trained on two samples and wrote the record.
C28_Witness ==
    /\ last.op = "construct" /\ last.use /\ last.path = "train"
    /\ last.h = 20 /\ Len(last.indices) = 2
    /\ record # <<>>
    /\ record[1].content.b1 = input_layer_bias
    /\ input_layer_bias.k = "upd"

----------------------------------------------------------------------------
(* Properties of the hyperparameter sweep, checked under SpecDesign. *)

\* C18: find_optimal_hidden_nodes(min_nodes, max_nodes, step) returns exactly
\* one (node count, accuracy) entry for each of min_nodes, min_nodes + step,
\* ... strictly below max_nodes and for no other node count, the accuracy being
\* the one model_test gave the network of that node count.
C18_SweepCoversRange ==
    last.op = "sweep" =>
        LET nodes == {n \in last.min_nodes..(last.max_nodes - 1) :
                         (n - last.min_nodes) % last.step = 0}
        IN  /\ Len(last.ret) = Cardinality(nodes)
            /\ {last.ret[i][1] : i \in 1..Len(last.ret)} = nodes
            /\ \A i \in 1..Len(last.ret) :
                  last.ret[i][2] = Accuracy[last.correct[last.ret[i][1]]]

\* A sweep whose max_nodes is a value of the progression and is left out:
\* min 1, max 5, step 2 gives the two entries for 1 and 3.
C18_Witness ==
    /\ last.op = "sweep"
    /\ last.min_nodes = 1 /\ last.max_nodes = 5 /\ last.step = 2
    /\ Len(last.ret) = 2
    /\ {last.ret[i][1] : i \in 1..Len(last.ret)} = {1, 3}

\* C19: the list find_optimal_hidden_nodes returns is in descending order of
\* accuracy, and entries of equal accuracy are in ascending order of node
\* count.
C19_SortedByAccuracy ==
    last.op = "sweep" =>
        \A i, j \in 1..Len(last.ret) :
            i < j =>
                /\ ~FloatLess(last.ret[i][2], last.ret[j][2])
                /\ last.ret[i][2] = last.ret[j][2] => last.ret[i][1] < last.ret[j][1]

\* A sweep the sort reorders and that holds a tie: the largest node count comes
\* first, two smaller ones of equal, lower accuracy follow in ascending order.
C19_Witness ==
    /\ last.op = "sweep"
    /\ Len(last.ret) = 3
    /\ last.ret[1][1] > last.ret[3][1]
    /\ FloatLess(last.ret[2][2], last.ret[1][2])
    /\ last.ret[2][2] = last.ret[3][2]
    /\ last.ret[2][1] < last.ret[3][1]

\* The fraction of a test set's indices that are predicted correctly, as the
\* floating-point quotient count / len.
Fraction(hits) ==
    FloatDivInt(FromInt(Cardinality({i \in 1..Len(hits) : hits[i]})), Len(hits))

\* The network model_test was handed is the one that was built.
NetworkUntouched ==
    /\ theta1 = InitValue("theta1", 0)
    /\ theta2 = InitValue("theta2", 0)
    /\ input_layer_bias = InitValue("input_layer_bias", 0)
    /\ hidden_layer_bias = InitValue("hidden_layer_bias", 0)

\* C20 as stated: model_test returns 0.0 for an empty test set and otherwise a
\* value in [0, 1] equal to the fraction of test indices predicted correctly,
\* and leaves the network as it was.
C20_AccuracyIsFraction ==
    last.op = "model_test" =>
        /\ last.hits = <<>> => last.ret = Zero
        /\ last.hits # <<>> =>
              /\ ~FloatLess(One, last.ret)
              /\ last.ret = Fraction(last.hits)
        /\ NetworkUntouched

\* C20, amended: model_test returns 0.0 for an empty test set and otherwise
\* the floating-point mean of ten equal per-run fractions: a value in [0, 1]
\* that is 0.0 when no index is predicted correctly, 1.0 when all are, and in
\* every case within 32 units in the last place of the fraction; it leaves the
\* network as it was.
C20_AccuracyIsRoundedMean ==
    last.op = "model_test" =>
        /\ last.hits = <<>> => last.ret = Zero
        /\ last.hits # <<>> =>
              /\ ~FloatLess(One, last.ret)
              /\ (\A i \in 1..Len(last.hits) : ~last.hits[i]) => last.ret = Zero
              /\ (\A i \in 1..Len(last.hits) : last.hits[i]) => last.ret = One
              /\ \/ UpWithin(Fraction(last.hits), last.ret, 32)
                 \/ UpWithin(last.ret, Fraction(last.hits), 32)
        /\ NetworkUntouched

\* A test set of three indices of which one is predicted correctly: the mean
\* of the ten runs is the number next above the fraction 1/3.
C20_Witness ==
    /\ last.op = "model_test"
    /\ Len(last.hits) = 3
    /\ Cardinality({i \in 1..3 : last.hits[i]}) = 1
    /\ last.ret # Fraction(last.hits)
    /\ last.ret = NextUp(Fraction(last.hits))

\* C27: for each candidate node count the sweep builds a network of its own
\* with persistence disabled, from a fresh draw of that shape, and the network
\* model_test is given has had exactly three epochs over train_indices, in
\* order; the sweep leaves the record, the backups and the network built
\* before it as they were.
C27_SweepTrainsFreshNetworks ==
    [][last'.op = "sweep" =>
          /\ UNCHANGED <<tensors, num_hidden_nodes, use_file, record, backups>>
          /\ Len(last'.networks) = Len(last'.ret)
          /\ \A i \in 1..Len(last'.ret) :
                \E k \in 1..Len(last'.networks) :
                    last'.networks[k].num_hidden_nodes = last'.ret[i][1]
          /\ \A k \in 1..Len(last'.networks) :
                LET nn == last'.networks[k]
                IN  /\ ~nn.use_file
                    /\ \A f \in Fields :
                          /\ nn.init[f].k = "init"
                          /\ nn.init[f].shape = Shape(f, nn.num_hidden_nodes)
                          /\ nn.init[f] # Weights[f]
                    /\ EpochFrom(nn.w, nn.init,
                                 train_indices \o train_indices \o train_indices)]_vars

\* A sweep over two node counts on a server whose network was trained and
\* whose path holds a record and a backup.
C27_Witness ==
    /\ last.op = "sweep"
    /\ Len(last.networks) = 2
    /\ last.networks[1].w.theta1.k = "upd"
    /\ use_file /\ record # <<>> /\ backups # {}
    /\ theta1.k = "upd"

----------------------------------------------------------------------------
(* Properties of the HTTP server, checked under SpecServer *)

\* A sample the handler's validation is to reject: a field is missing, y0 has
\* not 400 elements, the label is not an integer in 0..9, or a pixel is not a
\* number.
RejectedSample(data) ==
    \/ DOMAIN data # {"y0", "label"}
    \/ data.y0.len # InputSize
    \/ ~data.y0.numeric
    \/ ~IntegerLabelInRange(data.label)

\* C24: a train request with a sample that is to be rejected is answered with
\* status 400 and the position of the first such sample, and leaves the four
\* tensors, the record and the backups as they were, also when samples before
\* it are valid.
C24_InvalidTrainRequestChangesNothing ==
    [][(/\ last'.op = "http"
        /\ "trainArray" \in DOMAIN last'.payload
        /\ \E i \in 1..Len(last'.payload.trainArray) :
              RejectedSample(last'.payload.trainArray[i])) =>
           LET arr == last'.payload.trainArray
               first == CHOOSE i \in 1..Len(arr) :
                           /\ RejectedSample(arr[i])
                           /\ \A j \in 1..(i - 1) : ~RejectedSample(arr[j])
           IN  /\ last'.status = 400
               /\ last'.sample = first - 1
               /\ UNCHANGED <<tensors, record, backups>>]_vars

\* A request whose first sample is valid and whose second has pixels that are
\* not numbers, made of a server that has trained and saved on a request
\* before: it is answered 400 for sample 1.
C24_Witness ==
    /\ last.op = "http" /\ last.status = 400 /\ last.sample = 1
    /\ last.kind = "pixel"
    /\ last.payload.trainArray[1] = ValidSample
    /\ theta1.k = "upd" /\ theta1.x = 1 /\ theta1.label = 0
    /\ record # <<>> /\ record[1].content.theta1 = theta1
    /\ backups # {}

\* C30: with requests handled one at a time and working storage, whenever no
\* request is in progress the record holds the tensors the shared network has
\* in memory: a train request changes both or neither, a predict request
\* neither.
C30_RecordFollowsMemory ==
    last.op \in {"construct", "http"} =>
        /\ record # <<>>
        /\ FromJson(record[1].content) = Weights

----------------------------------------------------------------------------
(* Properties of the threaded server, checked under SpecThreads *)

\* Thread t is inside a training step: it has read the tensors for its forward
\* pass and has not made the last of the step's four additions.
InTrainingStep(t) == requests[t].pc \in {UpdateOrder[i] : i \in 1..4}

\* The weights the requests of threads t and then u leave when the second
\* starts after the first has returned, from the weights the server started
\* with.
SerialWeights(t, u) ==
    LET first == Response(requests[t].payload, RandomInit(20, 0), <<>>, {}, 0, FALSE)
    IN  Response(requests[u].payload, first.w, <<>>, {}, 0, FALSE).w

\* C22: access to the shared network is serialized: no two threads are inside
\* a training step at once, and when all requests have returned the weights
\* are those of the requests handled one after the other in some order.
C22_AccessIsSerialized ==
    /\ \A t \in Threads : \A u \in Threads \ {t} :
          ~(InTrainingStep(t) /\ InTrainingStep(u))
    /\ (\A t \in Threads : requests[t].pc = "done") =>
          \E t \in Threads : \E u \in Threads \ {t} : Weights = SerialWeights(t, u)

\* Thread t is inside save: it has taken the backup and has not returned.
InSave(t) == requests[t].pc \in {"listdir", "remove", "dump", "open", "write"}

\* C23: no two threads are inside save at once; so no save fails, no backup
\* is a copy of a record that was being written, and every record written
\* holds the tensors of a point between training steps.
C23_SavesNeverOverlap ==
    /\ \A t \in Threads : \A u \in Threads \ {t} : ~(InSave(t) /\ InSave(u))
    /\ \A t \in Threads :
          requests[t].pc = "done" => requests[t].kind # "FileNotFoundError"
    /\ \A b \in backups : b.content # Truncated
    /\ \A t \in Threads :
          requests[t].pc \in {"open", "write"} => requests[t].between

----------------------------------------------------------------------------
(* Properties of the activation function, checked under SpecSigmoid *)

\* A number that is neither an overflow nor below the normal range.
Finite(x) == x.z \/ (x.e >= -1022 /\ x.e <= 1023)

Half == FloatDiv(One, FromInt(2))
Quarter == FloatDiv(One, FromInt(4))

\* C25 as stated: sigmoid(z) is strictly between 0 and 1 for every z,
\* sigmoid(0) = 0.5, sigmoidPrime(0) = 0.25, and nothing overflows for |z| up
\* to 1e10.
C25_SigmoidStrictlyInside ==
    /\ last.op = "sigmoid" =>
          /\ FloatLess(Zero, last.ret) /\ FloatLess(last.ret, One)
          /\ Finite(last.exp_z) /\ Finite(last.sum) /\ Finite(last.ret)
          /\ last.z.n = 0 => last.ret = Half
    /\ last.op = "sigmoid_prime" =>
          /\ Finite(last.ret)
          /\ last.z.n = 0 => last.ret = Quarter

\* C25, amended: sigmoid(z) is above 0 and at most 1 for every z, and is
\* exactly 1 from z = 37 on, where 1 + e^-z rounds to 1, and below 1 up to
\* z = 36; sigmoid(0) = 0.5, sigmoidPrime(0) = 0.25 and sigmoidPrime is at most
\* 0.25; every value computed on the way is a normal number or zero, for |z|
\* up to 1e10.
C25_SigmoidInRange ==
    /\ last.op = "sigmoid" =>
          /\ FloatLess(Zero, last.ret) /\ ~FloatLess(One, last.ret)
          /\ last.ret = One <=> (last.z.n > 0 /\ (last.z.tens > 0 \/ last.z.n >= 37))
          /\ Finite(last.exp_z) /\ Finite(last.sum) /\ Finite(last.ret)
          /\ last.z.n = 0 => last.ret = Half
    /\ last.op = "sigmoid_prime" =>
          /\ Finite(last.ret) /\ ~FloatLess(Quarter, last.ret)
          /\ last.ret = Zero <=> (last.z.n > 0 /\ (last.z.tens > 0 \/ last.z.n >= 37))
          /\ last.z.n = 0 => last.ret = Quarter

\* sigmoid(1e10), which returns exactly 1.
C25_Witness ==
    /\ last.op = "sigmoid" /\ last.z = [n |-> 1, tens |-> 10]
    /\ last.ret = One /\ last.sum = One /\ ~last.exp_z.z

----------------------------------------------------------------------------
(* Properties of the training step in binary64, checked under SpecNumeric *)

\* C21: a train call that succeeds on a batch that is not empty leaves at
\* least one of the four tensors different from what it was before the call.
C21_TrainChangesATensor ==
    (last.op = "train" /\ last.ret = "None" /\ last.batch # <<>>) =>
        Weights # last.pre

\* C21, amended: a train call that succeeds can leave all four tensors as
\* they were.  For a blank image and a theta2 of zeros it does so when the
\* network is saturated, the input bias at most -500 and the hidden bias at
\* least 37 in the label's row and at most -500 in the others: every update
\* is zero or lost in rounding.  It changes the label's row of theta2 whenever
\* the hidden bias in that row is at most 36, where the output is below 1.
C21_SaturatedStepChangesNothing ==
    last.op = "train" =>
        LET row == PyInt(last.batch[1].label.tenths) + 1
            b1 == WholeOf(last.pre.input_layer_bias.v)
            b2 == [i \in 1..OutputSize |-> WholeOf(last.pre.hidden_layer_bias.v[i])]
        IN  /\ (/\ b1 <= -500
                /\ b2[row] >= 37
                /\ \A i \in 1..OutputSize \ {row} : b2[i] <= -500) =>
                   Weights = last.pre
            /\ b2[row] <= 36 => theta2.v[row] # last.pre.theta2.v[row]

\* A blank image trained as digit 0 on a saturated network: all four tensors
\* are as before.
C21_Witness ==
    /\ last.op = "train" /\ last.ret = "None"
    /\ last.batch = <<[y0 |-> Pixels(InputSize, 0), label |-> Number(0)]>>
    /\ last.pre.input_layer_bias = Fill(Whole(-500))
    /\ last.pre.hidden_layer_bias.v[1] = Whole(37)
    /\ last.pre.hidden_layer_bias.v[2] = Whole(-1000)
    /\ Weights = last.pre

====
